---- MODULE Spec2Model ----
(***************************************************************************)
(* SF-Assistant: the per-account session ownership state machine           *)
(* (player.rs, AccountStatus), the message handlers that hand the session  *)
(* between the status cell and in-flight sends (message.rs, handle_msg),   *)
(* and the automation decision made by one RunAutomationTick.              *)
(***************************************************************************)
EXTENDS Integers, Sequences, FiniteSets, TLC

(***************************************************************************)
(* Option<T> is a sequence of length at most one.                          *)
(***************************************************************************)
None == <<>>
Some(x) == <<x>>
IsSome(o) == o # <<>>
IsNone(o) == o = <<>>

\* Option<DateTime>.map(|t| t <= now).unwrap_or(true)
ReadyOrTrue(o, now_) == IF IsSome(o) THEN o[1] <= now_ ELSE TRUE

Max(a, b) == IF a >= b THEN a ELSE b

(***************************************************************************)
(* sf_api::command::Command values built by the automation tick.           *)
(***************************************************************************)
NoCmd == [c |-> "None"]
Update == [c |-> "Update"]
FinishQuest(skip) == [c |-> "FinishQuest", skip |-> skip]
StartQuest(pos) == [c |-> "StartQuest", quest_pos |-> pos, overwrite_inv |-> TRUE]
BuyBeer == [c |-> "BuyBeer"]
SetQuestsInsteadOfExpeditions == [c |-> "SetQuestsInsteadOfExpeditions", value |-> "PreferExpeditions"]
ExpeditionStart(pos) == [c |-> "ExpeditionStart", pos |-> pos]
ExpeditionContinue == [c |-> "ExpeditionContinue"]
ExpeditionPickReward(pos) == [c |-> "ExpeditionPickReward", pos |-> pos]
ExpeditionPickEncounter(pos) == [c |-> "ExpeditionPickEncounter", pos |-> pos]
ExpeditionSkipWait == [c |-> "ExpeditionSkipWait", typ |-> "Glass"]
StartWork(hours) == [c |-> "StartWork", hours |-> hours]
FinishWork == [c |-> "FinishWork"]
FightPortal == [c |-> "FightPortal"]
FightTower(level, use_mush) == [c |-> "FightTower", current_level |-> level, use_mush |-> use_mush]
FightDungeon(dng, use_mush) == [c |-> "FightDungeon", dungeon |-> dng, use_mushroom |-> use_mush]
FightPetOpponent(h, id) == [c |-> "FightPetOpponent", habitat |-> h, opponent_id |-> id]
FightPetDungeon(use_mush, h, pos, pet) ==
    [c |-> "FightPetDungeon", use_mush |-> use_mush, habitat |-> h,
     enemy_pos |-> pos, player_pet_id |-> pet]
GuildJoinDefense == [c |-> "GuildJoinDefense"]
GuildJoinAttack == [c |-> "GuildJoinAttack"]
GuildPetBattle == [c |-> "GuildPetBattle", use_mushroom |-> FALSE]

\* Option<SFCommand>::is_none
CmdIsNone(cmd) == cmd.c = "None"

\* the is_primary closure of the tick's queueing branch
is_primary(cmd) ==
    cmd.c \in {"StartQuest", "FinishQuest", "BuyBeer", "SetQuestsInsteadOfExpeditions",
               "ExpeditionStart", "ExpeditionContinue", "ExpeditionPickEncounter",
               "ExpeditionPickReward", "ExpeditionSkipWait", "StartWork", "FinishWork"}

\* program constants of the decision
SkipThresholdSecs == 60
BaseBeerCap == 10
GuardHours == 1
U8Modulus == 256

(***************************************************************************)
(* The decision of one tick.  gs is the GameState snapshot, cfg the        *)
(* CharacterConfig, now_ the value of Local::now() read by the handler.    *)
(***************************************************************************)

\* (busy_until - now).to_std().unwrap_or_default().as_secs()
RemainingSecs(until, now_) == IF until > now_ THEN until - now_ ELSE 0

\* CurrentAction::Quest { busy_until, .. }
\* a quest branch that skips with a glass however little time is left
QuestBranch_SkipsShortWaits(gs, cfg, now_) ==
    LET busy_until == gs.tavern.current_action.busy_until
    IN  IF busy_until <= now_
        THEN FinishQuest("None")
        ELSE IF cfg.use_glasses_for_tavern /\ gs.tavern.quicksand_glasses > 0
             THEN FinishQuest("Glass")
             ELSE NoCmd

QuestBranch(gs, cfg, now_) ==
    LET busy_until == gs.tavern.current_action.busy_until
    IN  IF busy_until <= now_
        THEN FinishQuest("None")
        ELSE IF RemainingSecs(busy_until, now_) > SkipThresholdSecs
             THEN IF cfg.use_glasses_for_tavern /\ gs.tavern.quicksand_glasses > 0
                  THEN FinishQuest("Glass")
                  ELSE NoCmd
             ELSE NoCmd

\* the substring tests on the lower-cased Debug text of a reward
RewardIsMush(r) == r = "Mushrooms"
RewardIsGold(r) == r \in {"Gold", "Silver"}
RewardIsEgg(r) == r = "Egg"

RewardRank(r, prio) ==
    CASE prio = "MushroomsGoldEggs" ->
            IF RewardIsMush(r) THEN 3 ELSE IF RewardIsGold(r) THEN 2
            ELSE IF RewardIsEgg(r) THEN 1 ELSE 0
      [] prio = "GoldMushroomsEggs" ->
            IF RewardIsGold(r) THEN 3 ELSE IF RewardIsMush(r) THEN 2
            ELSE IF RewardIsEgg(r) THEN 1 ELSE 0
      [] prio = "EggsMushroomsGold" ->
            IF RewardIsEgg(r) THEN 3 ELSE IF RewardIsMush(r) THEN 2
            ELSE IF RewardIsGold(r) THEN 1 ELSE 0

\* a loop that lets a later reward of equal rank replace the earlier one
RECURSIVE BestRewardIdx_LastOfTies(_, _, _, _, _)
BestRewardIdx_LastOfTies(rewards, prio, i, best_idx, best_rank) ==
    IF i > Len(rewards) THEN best_idx
    ELSE LET rank == RewardRank(rewards[i], prio)
         IN  IF best_rank = None \/ rank >= best_rank[1]
             THEN BestRewardIdx_LastOfTies(rewards, prio, i + 1, i - 1, Some(rank))
             ELSE BestRewardIdx_LastOfTies(rewards, prio, i + 1, best_idx, best_rank)

\* the best_idx / best_rank loop: the first index of strictly greatest rank
RECURSIVE BestRewardIdx(_, _, _, _, _)
BestRewardIdx(rewards, prio, i, best_idx, best_rank) ==
    IF i > Len(rewards) THEN best_idx
    ELSE LET rank == RewardRank(rewards[i], prio)
         IN  IF best_rank = None \/ rank > best_rank[1]
             THEN BestRewardIdx(rewards, prio, i + 1, i - 1, Some(rank))
             ELSE BestRewardIdx(rewards, prio, i + 1, best_idx, best_rank)

\* CurrentAction::Expedition
ExpeditionBranch(gs, cfg, now_) ==
    LET active == gs.tavern.expedition
    IN  IF IsNone(active) THEN NoCmd
        ELSE LET st == active[1]
             IN CASE st.stage = "Boss" -> ExpeditionContinue
                  [] st.stage = "Rewards" ->
                        IF st.rewards = <<>> THEN NoCmd
                        ELSE ExpeditionPickReward(
                                BestRewardIdx(st.rewards, cfg.expedition_reward_priority,
                                              1, 0, None))
                  [] st.stage = "Encounters" ->
                        IF st.encounters = 0 THEN NoCmd ELSE ExpeditionPickEncounter(0)
                  [] st.stage = "Waiting" ->
                        IF /\ cfg.use_glasses_for_expeditions
                           /\ RemainingSecs(st.until, now_) > SkipThresholdSecs
                           /\ gs.tavern.quicksand_glasses > 0
                        THEN ExpeditionSkipWait
                        ELSE NoCmd
                  [] OTHER -> NoCmd

(***************************************************************************)
(* Dungeons.  gs.dungeons.light lists the non-tower light dungeons in      *)
(* LightDungeon::iter() order, gs.dungeons.shadow the shadow dungeons;     *)
(* each entry is Some(finished) when DungeonProgress::Open { finished }.   *)
(***************************************************************************)
OpenDungeons(d) ==
    LET light == [i \in 1..Len(d.light) |->
                    [dungeon |-> [kind |-> "Light", idx |-> i], progress |-> d.light[i]]]
        shadow == [i \in 1..Len(d.shadow) |->
                    [dungeon |-> [kind |-> "Shadow", idx |-> i], progress |-> d.shadow[i]]]
        IsOpen(e) == IsSome(e.progress)
    IN  SelectSeq(light, IsOpen) \o SelectSeq(shadow, IsOpen)

\* a choice that lets a later dungeon of equal progress replace the earlier one
RECURSIVE FewestFinished_LastOfTies(_, _)
FewestFinished_LastOfTies(entries, best) ==
    IF entries = <<>> THEN best
    ELSE LET e == Head(entries)
             nb == IF IsNone(best) THEN Some(e)
                   ELSE IF e.progress[1] <= best[1].progress[1] THEN Some(e) ELSE best
         IN  FewestFinished_LastOfTies(Tail(entries), nb)

\* best = match best { None => Some(entry), Some((_, f)) if finished < f => Some(entry), x => x }
RECURSIVE FewestFinished(_, _)
FewestFinished(entries, best) ==
    IF entries = <<>> THEN best
    ELSE LET e == Head(entries)
             nb == IF IsNone(best) THEN Some(e)
                   ELSE IF e.progress[1] < best[1].progress[1] THEN Some(e) ELSE best
         IN  FewestFinished(Tail(entries), nb)

\* a dungeon fight that skips the timer with a mushroom whatever the budget
DungeonFight_SkipsWithoutBudget(gs, cfg, now_) ==
    LET d == gs.dungeons
        next_ready == ReadyOrTrue(d.next_free_fight, now_)
        use_mush == ~next_ready /\ gs.character.mushrooms > 0
        can_fight_now == next_ready \/ use_mush
    IN  IF ~can_fight_now THEN NoCmd
        ELSE IF IsSome(d.tower)
             THEN FightTower(d.tower[1] % U8Modulus, use_mush)
             ELSE LET best == FewestFinished(OpenDungeons(d), None)
                  IN  IF IsSome(best) THEN FightDungeon(best[1].dungeon, use_mush)
                      ELSE NoCmd

\* the timer / mushroom-skip test and the tower / dungeon choice
DungeonFight(gs, cfg, now_) ==
    LET d == gs.dungeons
        next_ready == ReadyOrTrue(d.next_free_fight, now_)
        use_mush == ~next_ready /\ cfg.max_mushrooms_dungeon_skip > 0
                    /\ gs.character.mushrooms > 0
        can_fight_now == next_ready \/ use_mush
    IN  IF ~can_fight_now THEN NoCmd
        ELSE IF IsSome(d.tower)
             THEN FightTower(d.tower[1] % U8Modulus, use_mush)
             ELSE LET best == FewestFinished(OpenDungeons(d), None)
                  IN  IF IsSome(best) THEN FightDungeon(best[1].dungeon, use_mush)
                      ELSE NoCmd

\* a dungeon step whose portal fight waits for the dungeon fight timer
DungeonsStep_PortalWaitsForTimer(cmd, gs, cfg, now_) ==
    IF ~cfg.auto_dungeons THEN cmd
    ELSE LET c1 == IF /\ IsSome(gs.dungeons.portal) /\ gs.dungeons.portal[1]
                      /\ ReadyOrTrue(gs.dungeons.next_free_fight, now_)
                   THEN FightPortal ELSE cmd
         IN  IF CmdIsNone(c1) THEN DungeonFight(gs, cfg, now_) ELSE c1

\* if cfg.auto_dungeons { portal overrides cmd; if cmd.is_none() { fight } }
DungeonsStep(cmd, gs, cfg, now_) ==
    IF ~cfg.auto_dungeons THEN cmd
    ELSE LET c1 == IF IsSome(gs.dungeons.portal) /\ gs.dungeons.portal[1]
                   THEN FightPortal ELSE cmd
         IN  IF CmdIsNone(c1) THEN DungeonFight(gs, cfg, now_) ELSE c1

(***************************************************************************)
(* Pets.  pets.habitats is indexed in HabitatType::iter() order; a habitat *)
(* is [battled_opponent, pets: Seq([id, level]), exploration: Option of    *)
(* fights_won].                                                            *)
(***************************************************************************)

\* Iterator::max_by_key(|p| p.level): the last element of greatest level
RECURSIVE MaxByLevel(_, _)
MaxByLevel(ps, best) ==
    IF ps = <<>> THEN best
    ELSE LET p == Head(ps)
             nb == IF IsNone(best) \/ p.level >= best[1].level THEN Some(p) ELSE best
         IN  MaxByLevel(Tail(ps), nb)

\* the loop over HabitatType::iter() choosing the unfought habitat of highest pet level
RECURSIVE BestPvPHabitat(_, _, _)
BestPvPHabitat(habs, h, best) ==
    IF h > Len(habs) THEN best
    ELSE LET hab == habs[h]
             p == MaxByLevel(hab.pets, None)
             nb == IF hab.battled_opponent \/ IsNone(p) THEN best
                   ELSE IF IsNone(best) \/ p[1].level > best[1].level
                        THEN Some([hab |-> h, level |-> p[1].level])
                        ELSE best
         IN  BestPvPHabitat(habs, h + 1, nb)

\* target_hab: the opponent's habitat if unfought, else the best unfought habitat
PvPTarget(pets) ==
    LET oh == pets.opponent.habitat
    IN  IF IsSome(oh) /\ ~pets.habitats[oh[1]].battled_opponent
        THEN oh
        ELSE LET best == BestPvPHabitat(pets.habitats, 1, None)
             IN  IF IsSome(best) THEN Some(best[1].hab) ELSE None

PetsPvP(pets, now_) ==
    IF ReadyOrTrue(pets.opponent.next_free_battle, now_)
    THEN LET t == PvPTarget(pets)
         IN  IF IsSome(t) THEN FightPetOpponent(t[1], pets.opponent.id) ELSE NoCmd
    ELSE NoCmd

\* the loop choosing the exploring habitat of highest pet level
RECURSIVE BestExploring(_, _, _)
BestExploring(habs, h, pick) ==
    IF h > Len(habs) THEN pick
    ELSE LET hab == habs[h]
             p == MaxByLevel(hab.pets, None)
             np == IF IsNone(hab.exploration) \/ IsNone(p) THEN pick
                   ELSE IF IsNone(pick) \/ p[1].level > pick[1].level
                        THEN Some([hab |-> h, enemy_pos |-> hab.exploration[1] + 1,
                                   level |-> p[1].level, id |-> p[1].id])
                        ELSE pick
         IN  BestExploring(habs, h + 1, np)

PetsExplore(pets, gs, cfg, now_) ==
    LET next_ready == ReadyOrTrue(pets.next_free_exploration, now_)
        use_mush == ~next_ready /\ cfg.max_mushrooms_pet_skip > 0
                    /\ gs.character.mushrooms > 0
        can_explore == next_ready \/ use_mush
    IN  IF ~can_explore THEN NoCmd
        ELSE LET pick == BestExploring(pets.habitats, 1, None)
             IN  IF IsSome(pick)
                 THEN FightPetDungeon(use_mush, pick[1].hab, pick[1].enemy_pos, pick[1].id)
                 ELSE NoCmd

\* if cmd.is_none() && cfg.auto_pets { PvP; if cmd.is_none() { exploration } }
PetsStep(cmd, gs, cfg, now_) ==
    IF CmdIsNone(cmd) /\ cfg.auto_pets /\ IsSome(gs.pets)
    THEN LET c1 == PetsPvP(gs.pets[1], now_)
         IN  IF CmdIsNone(c1) THEN PetsExplore(gs.pets[1], gs, cfg, now_) ELSE c1
    ELSE cmd

\* the side-action copy: PvP only while some habitat is unfought, else exploration
PetsFallback(cmd, gs, cfg, now_) ==
    IF CmdIsNone(cmd) /\ cfg.auto_pets /\ IsSome(gs.pets)
    THEN LET pets == gs.pets[1]
             any_pvp_left == \E h \in 1..Len(pets.habitats) :
                                ~pets.habitats[h].battled_opponent
         IN  IF any_pvp_left THEN PetsPvP(pets, now_)
             ELSE PetsExplore(pets, gs, cfg, now_)
    ELSE cmd

(***************************************************************************)
(* Guild.  gs.guild is Option of [hydra: [remaining_fights, next_battle]]. *)
(***************************************************************************)
HydraDue(gs, now_) ==
    /\ IsSome(gs.guild)
    /\ gs.guild[1].hydra.remaining_fights > 0
    /\ IsSome(gs.guild[1].hydra.next_battle)
    /\ gs.guild[1].hydra.next_battle[1] <= now_

GuildStep(cmd, gs, cfg, now_) ==
    IF CmdIsNone(cmd) /\ cfg.auto_guild
    THEN LET c1 == IF IsSome(gs.guild) /\ cfg.auto_guild_accept_defense
                   THEN GuildJoinDefense ELSE cmd
             c2 == IF CmdIsNone(c1) /\ IsSome(gs.guild) /\ cfg.auto_guild_accept_attack
                   THEN GuildJoinAttack ELSE c1
         IN  IF CmdIsNone(c2) /\ cfg.auto_guild_hydra /\ HydraDue(gs, now_)
             THEN GuildPetBattle ELSE c2
    ELSE cmd

\* the side-action copy: hydra only
GuildFallback(cmd, gs, cfg, now_) ==
    IF CmdIsNone(cmd) /\ cfg.auto_guild /\ cfg.auto_guild_hydra /\ HydraDue(gs, now_)
    THEN GuildPetBattle
    ELSE cmd

(***************************************************************************)
(* Quest scoring.  A score is the exact rational n/d (d > 0) of the f64    *)
(* the code computes: minutes = max(base_length, 1) / 60.                  *)
(***************************************************************************)
QuestScore(q, strat) ==
    LET len1 == Max(q.base_length, 1)
        len60 == Max(len1, 60)
    IN  CASE strat = "Shortest" -> [n |-> 0 - len1, d |-> 60]
          [] strat = "MostGold" -> [n |-> q.base_silver, d |-> 1]
          [] strat = "BestGoldPerMinute" -> [n |-> q.base_silver * 60, d |-> len1]
          [] strat = "BestXpPerMinute" -> [n |-> q.base_experience * 60, d |-> len1]
          [] strat = "Smartest" ->
                [n |-> (45 * q.base_silver + 45 * q.base_experience + 10) * 60,
                 d |-> 100 * len60]

RECURSIVE Gcd(_, _)
Gcd(a, b) == IF b = 0 THEN a ELSE Gcd(b, a % b)

\* a > b on the scores' common denominator
ScoreGt(a, b) ==
    LET g == Gcd(a.d, b.d)
    IN  a.n * (b.d \div g) > b.n * (a.d \div g)

\* the best / alt_best loops: the first quest of strictly greatest score among
\* those of base_length <= limit (limit = None: all quests); 0-based index
RECURSIVE BestQuest(_, _, _, _, _)
BestQuest(qs, strat, limit, i, best) ==
    IF i > Len(qs) THEN best
    ELSE LET fits == IsNone(limit) \/ qs[i].base_length <= limit[1]
             s == QuestScore(qs[i], strat)
             nb == IF ~fits THEN best
                   ELSE IF IsNone(best) \/ ScoreGt(s, best[1].score)
                        THEN Some([idx |-> i - 1, score |-> s])
                        ELSE best
         IN  BestQuest(qs, strat, limit, i + 1, nb)

\* 10 + has_enchantment(ThirstyWanderer) as u8
BeerCap(gs) == BaseBeerCap + (IF gs.character.thirsty_wanderer THEN 1 ELSE 0)

CanBuyBeer(gs, cfg) ==
    /\ cfg.auto_buy_beer_mushrooms
    /\ cfg.max_mushrooms_beer > 0
    /\ gs.character.mushrooms > 0
    /\ gs.tavern.beer_drunk < BeerCap(gs)

\* a quest start whose alternative is not held to the remaining thirst
QuestStart_AltIgnoresThirst(gs, cfg) ==
    LET qs == gs.tavern.quests
        thirst == gs.tavern.thirst_for_adventure_sec
        best == BestQuest(qs, cfg.mission_strategy, None, 1, None)
        pick_idx == IF IsSome(best) THEN best[1].idx ELSE 0
        picked == qs[pick_idx + 1]
    IN  IF picked.base_length > thirst
        THEN IF CanBuyBeer(gs, cfg) THEN BuyBeer
             ELSE StartQuest(pick_idx)
        ELSE StartQuest(pick_idx)

\* AvailableTasks::Quests(qs) if cfg.auto_tavern
QuestStart(gs, cfg) ==
    LET qs == gs.tavern.quests
        thirst == gs.tavern.thirst_for_adventure_sec
        best == BestQuest(qs, cfg.mission_strategy, None, 1, None)
        pick_idx == IF IsSome(best) THEN best[1].idx ELSE 0
        picked == qs[pick_idx + 1]
    IN  IF picked.base_length > thirst
        THEN IF CanBuyBeer(gs, cfg) THEN BuyBeer
             ELSE LET alt == BestQuest(qs, cfg.mission_strategy, Some(thirst), 1, None)
                  IN  IF IsSome(alt) THEN StartQuest(alt[1].idx) ELSE NoCmd
        ELSE StartQuest(pick_idx)

\* match gs.tavern.available_tasks()
TavernStart(gs, cfg) ==
    IF gs.tavern.available_tasks = "Expeditions" /\ cfg.auto_expeditions
    THEN IF /\ gs.tavern.questing_preference = "PreferQuests"
            /\ gs.tavern.can_change_questing_preference
         THEN SetQuestsInsteadOfExpeditions
         ELSE IF gs.tavern.thirst_for_adventure_sec > 0 THEN ExpeditionStart(0)
              ELSE NoCmd
    ELSE IF gs.tavern.available_tasks = "Quests" /\ cfg.auto_tavern
         THEN QuestStart(gs, cfg)
         ELSE NoCmd

\* a fallback that waits for the daily beer cap even when no beer can be bought
GuardFallback_OnlyAtBeerCap(cmd, gs, cfg) ==
    IF /\ CmdIsNone(cmd)
       /\ (cfg.auto_tavern \/ cfg.auto_expeditions)
       /\ gs.tavern.thirst_for_adventure_sec = 0
    THEN LET beer_left == Max(BeerCap(gs) - gs.tavern.beer_drunk, 0)
         IN  IF beer_left = 0 THEN StartWork(GuardHours) ELSE cmd
    ELSE cmd

\* thirst empty and beer unavailable: one hour of guard duty
GuardFallback(cmd, gs, cfg) ==
    IF /\ CmdIsNone(cmd)
       /\ (cfg.auto_tavern \/ cfg.auto_expeditions)
       /\ gs.tavern.thirst_for_adventure_sec = 0
    THEN LET beer_left == Max(BeerCap(gs) - gs.tavern.beer_drunk, 0)
         IN  IF beer_left = 0 \/ ~CanBuyBeer(gs, cfg) THEN StartWork(GuardHours) ELSE cmd
    ELSE cmd

\* an idle branch that decides on guard duty before the dungeons and pets
IdleBranch_GuardFirst(gs, cfg, now_) ==
    LET c0 == GuardFallback(NoCmd, gs, cfg)
        c1 == DungeonsStep(c0, gs, cfg, now_)
        c2 == PetsStep(c1, gs, cfg, now_)
        c3 == IF CmdIsNone(c2) THEN TavernStart(gs, cfg) ELSE c2
    IN  GuildStep(c3, gs, cfg, now_)

\* CurrentAction::Unknown(_) | CurrentAction::Idle
IdleBranch(gs, cfg, now_) ==
    LET c1 == DungeonsStep(NoCmd, gs, cfg, now_)
        c2 == PetsStep(c1, gs, cfg, now_)
        c3 == IF CmdIsNone(c2) THEN TavernStart(gs, cfg) ELSE c2
        c4 == GuardFallback(c3, gs, cfg)
    IN  GuildStep(c4, gs, cfg, now_)

\* a guard branch that treats a running duty like an idle tavern
CityGuardBranch_StartsTavern(gs, cfg, now_) ==
    IF gs.tavern.current_action.busy_until <= now_
    THEN GuildStep(PetsStep(DungeonsStep(FinishWork, gs, cfg, now_), gs, cfg, now_),
                   gs, cfg, now_)
    ELSE IdleBranch(gs, cfg, now_)

\* CurrentAction::CityGuard { busy_until, .. }: collect the pay of a finished
\* duty, then the side actions in the same order as the idle branch
CityGuardBranch(gs, cfg, now_) ==
    LET c0 == IF gs.tavern.current_action.busy_until <= now_ THEN FinishWork ELSE NoCmd
        c1 == DungeonsStep(c0, gs, cfg, now_)
        c2 == PetsStep(c1, gs, cfg, now_)
    IN  GuildStep(c2, gs, cfg, now_)

\* next_cmd: the match on gs.tavern.current_action
NextCmd(gs, cfg, now_) ==
    LET kind == gs.tavern.current_action.kind
    IN  CASE kind = "Quest" -> QuestBranch(gs, cfg, now_)
          [] kind = "Expedition" -> ExpeditionBranch(gs, cfg, now_)
          [] kind = "CityGuard" -> CityGuardBranch(gs, cfg, now_)
          [] OTHER -> IdleBranch(gs, cfg, now_)

\* side-actions tried when next_cmd is None: dungeons, pets, hydra
SideActions(cmd, gs, cfg, now_) ==
    IF CmdIsNone(cmd)
    THEN LET c1 == DungeonsStep(cmd, gs, cfg, now_)
             c2 == PetsFallback(c1, gs, cfg, now_)
         IN  GuildFallback(c2, gs, cfg, now_)
    ELSE cmd

\* cmd.unwrap_or(SFCommand::Update): the command the tick decides to send
ChosenCmd(gs, cfg, now_) ==
    LET cmd == SideActions(NextCmd(gs, cfg, now_), gs, cfg, now_)
    IN  IF CmdIsNone(cmd) THEN Update ELSE cmd

\* the enable check at the head of the handler
AnyEnabled(cfg) ==
    cfg.auto_tavern \/ cfg.auto_expeditions \/ cfg.auto_dungeons
        \/ cfg.auto_pets \/ cfg.auto_guild

(***************************************************************************)
(* State of one account.                                                   *)
(*   status            AccountInfo.status, the AccountStatus cell          *)
(*   holders           everything outside the cell that owns the Session:  *)
(*                     running futures and undelivered messages carrying   *)
(*                     it, as [kind, session, info]                        *)
(*   polled            undelivered PlayerPolled messages                   *)
(*   automation_queue  AccountInfo.automation_queue                        *)
(*   cfg               Option of the account's CharacterConfig             *)
(*   now               the clock read by the handlers                      *)
(*   last              what the latest handler did: the status it found,   *)
(*                     its take_session and put_session calls and the      *)
(*                     commands it sent                                    *)
(*   ticks             the RunAutomationTick messages on their way to the  *)
(*                     handler and not yet handled: how many a future will *)
(*                     deliver after its sleep (scheduled by the check, by *)
(*                     PlayerPolled or by the tick handler as its re-run)  *)
(*                     and how many the Run now button has emitted         *)
(*   checker           the AutoMissionsChecker: its first_tick field and   *)
(*                     how far its check has come (pc)                     *)
(*   pick              a call of pick_mission: its arguments, the build's  *)
(*                     overflow checks and, once it has run, its result    *)
(*   spent             history: the commands sent so far that spend        *)
(*                     mushrooms, counted for each budget                  *)
(***************************************************************************)
VARIABLES status, holders, polled, automation_queue, cfg, now, last, ticks,
          checker, pick, spent

vars ==
    <<status, holders, polled, automation_queue, cfg, now, last, ticks, checker,
      pick, spent>>

TickKinds == {"scheduled", "pressed"}
NoTicks == [scheduled |-> 0, pressed |-> 0]
OneTick == [scheduled |-> 1, pressed |-> 0]

Pending == ticks.scheduled + ticks.pressed

\* a RunAutomationTick message is on its way to the handler
tick_scheduled == Pending > 0

\* a future that sleeps and then delivers RunAutomationTick has been started
TickScheduled == [ticks EXCEPT !.scheduled = @ + 1]

\* the handler has taken a message of the kind, and has scheduled its re-run
TickTaken(kind) == [ticks EXCEPT ![kind] = @ - 1]
TickRerun(kind) == [TickTaken(kind) EXCEPT !.scheduled = @ + 1]

\* AccountStatus
LoggingIn == [tag |-> "LoggingIn"]
Idle(session, gs) == [tag |-> "Idle", session |-> session, gs |-> gs]
Busy(gs, reason) == [tag |-> "Busy", gs |-> gs, reason |-> reason]
FatalError == [tag |-> "FatalError"]
LoggingInAgain == [tag |-> "LoggingInAgain"]

\* the one Box<Session> of the account
TheSession == "session"

\* a take_session that hands the session out and leaves the status Idle
take_session_keeps_idle(st, reason) ==
    IF st.tag = "Idle"
    THEN [status |-> st, res |-> Some(st.session)]
    ELSE [status |-> st, res |-> None]

\* a take_session that answers a FatalError status by asking for a new login
take_session_retries_after_fatal(st, reason) ==
    IF st.tag = "Idle"
    THEN [status |-> Busy(st.gs, reason), res |-> Some(st.session)]
    ELSE IF st.tag = "FatalError"
         THEN [status |-> LoggingInAgain, res |-> None]
         ELSE [status |-> st, res |-> None]

\* a take_session without the `x => x` arm: what mem::replace left stays behind
take_session_drops_snapshot(st, reason) ==
    IF st.tag = "Idle"
    THEN [status |-> Busy(st.gs, reason), res |-> Some(st.session)]
    ELSE [status |-> LoggingInAgain, res |-> None]

\* AccountStatus::take_session: the new status and the returned Option<Session>
take_session(st, reason) ==
    IF st.tag = "Idle"
    THEN [status |-> Busy(st.gs, reason), res |-> Some(st.session)]
    ELSE [status |-> st, res |-> None]

\* a put_session that also re-attaches the session to an Idle status
put_session_always_idle(st, session) ==
    IF st.tag \in {"Busy", "Idle"} THEN Idle(session, st.gs) ELSE st

\* AccountStatus::put_session
put_session(st, session) ==
    IF st.tag = "Busy" THEN Idle(session, st.gs) ELSE st

\* gs.update(resp) on the snapshot inside Busy
WithSnapshot(st, gs) == [st EXCEPT !.gs = gs]

\* holders whose future is a send_command in flight
SendKinds == {"AutoPoll", "TickSend", "QueueSend", "Fight", "Lure"}

Holder(kind, session, info) == [kind |-> kind, session |-> session, info |-> info]

\* the sequence s without its i-th element
RemoveAt(s, i) == SubSeq(s, 1, i - 1) \o SubSeq(s, i + 1, Len(s))

\* the sequence s with its i-th element replaced
ReplaceAt(s, i, x) == [s EXCEPT ![i] = x]

SendsInFlight(hs) == Len(SelectSeq(hs, LAMBDA h : h.kind \in SendKinds))

\* records of `last`
TakeRec(pre, reason, t, hs) ==
    [pre |-> pre, reason |-> reason, res |-> t.res, post |-> t.status,
     in_flight |-> SendsInFlight(hs)]
PutRec(pre, session, post) == [pre |-> pre, session |-> session, post |-> post]
\* pre is the status the handler found
\* wait is the delay of the RunAutomationTick the handler or the check has
\* scheduled, if it has scheduled one
LastRec(act, take, put, sent) ==
    [act |-> act, pre |-> status, take |-> take, put |-> put, sent |-> sent,
     wait |-> None]

\* a sleep drawn from lo..hi milliseconds
Range(lo, hi) == [lo |-> lo, hi |-> hi]
\* the sleeps before a scheduled RunAutomationTick: the wait, then the jitter
Delay(sleep, jitter) == [sleep |-> sleep, jitter |-> jitter]
Scheduled(rec, delay) == [rec EXCEPT !.wait = Some(delay)]

(***************************************************************************)
(* Snapshots and configurations the server and the user can produce.       *)
(***************************************************************************)
NowValue == 100
Past == NowValue - 50
Soon == NowValue + 30
Later == NowValue + 100

BaseTavern ==
    [current_action |-> [kind |-> "Idle", busy_until |-> Past],
     expedition |-> None,
     quicksand_glasses |-> 0,
     available_tasks |-> "Quests",
     quests |-> << [base_length |-> 300, base_silver |-> 5, base_experience |-> 7],
                   [base_length |-> 600, base_silver |-> 20, base_experience |-> 9] >>,
     questing_preference |-> "PreferQuests",
     can_change_questing_preference |-> FALSE,
     thirst_for_adventure_sec |-> 1000,
     beer_drunk |-> 0]

BaseDungeons ==
    [portal |-> None, next_free_fight |-> Some(Later), tower |-> None,
     light |-> <<None, None>>, shadow |-> <<None>>]

BaseSnapshot ==
    [tavern |-> BaseTavern,
     dungeons |-> BaseDungeons,
     pets |-> None,
     guild |-> None,
     character |-> [mushrooms |-> 0, thirsty_wanderer |-> FALSE]]

BaseCfg ==
    [auto_tavern |-> TRUE, auto_expeditions |-> TRUE, auto_dungeons |-> TRUE,
     auto_pets |-> FALSE, auto_guild |-> FALSE,
     auto_guild_accept_defense |-> TRUE, auto_guild_accept_attack |-> TRUE,
     auto_guild_hydra |-> TRUE,
     mission_strategy |-> "Shortest",
     auto_buy_beer_mushrooms |-> FALSE,
     use_glasses_for_tavern |-> FALSE,
     max_mushrooms_beer |-> 0, max_mushrooms_dungeon_skip |-> 0,
     max_mushrooms_pet_skip |-> 0,
     use_glasses_for_expeditions |-> FALSE,
     expedition_reward_priority |-> "MushroomsGoldEggs"]

AllOffCfg ==
    [BaseCfg EXCEPT !.auto_tavern = FALSE, !.auto_expeditions = FALSE,
                    !.auto_dungeons = FALSE]

\* snapshots of the session protocol: a quest to start (primary), a portal fight
\* (side), an expedition at its boss (primary, PlayerPolled re-ticks), a running
\* quest with nothing to do (Update)
SnapQuestStart == BaseSnapshot
SnapPortal == [BaseSnapshot EXCEPT !.dungeons.portal = Some(TRUE)]
SnapBoss ==
    [BaseSnapshot EXCEPT
        !.tavern.current_action = [kind |-> "Expedition", busy_until |-> Past],
        !.tavern.expedition = Some([stage |-> "Boss", rewards |-> <<>>,
                                    encounters |-> 0, until |-> Past])]
SnapQuestRunning ==
    [BaseSnapshot EXCEPT
        !.tavern.current_action = [kind |-> "Quest", busy_until |-> Later]]

ProtoSnapshots == {SnapQuestStart, SnapPortal, SnapBoss, SnapQuestRunning}
ProtoCfgs == {None, Some(BaseCfg), Some(AllOffCfg)}

\* bounds of the session protocol
MaxAttempt == 2
MaxPolled == 2

NoLast ==
    [act |-> "none", pre |-> LoggingIn, take |-> None, put |-> None, sent |-> <<>>,
     wait |-> None]

CheckerStart == [first_tick |-> FALSE, pc |-> "start"]

\* no call of pick_mission
NoPick ==
    [items |-> <<>>, strat |-> "Shortest", overflow_checks |-> FALSE, called |-> FALSE,
     panicked |-> FALSE, res |-> None]

\* the three mushroom budgets of CharacterConfig, and nothing spent yet
Budgets == {"beer", "dungeon_skip", "pet_skip"}
NoSpend == [b \in Budgets |-> 0]

Init ==
    /\ status = LoggingIn
    /\ holders = <<>>
    /\ polled = 0
    /\ automation_queue = <<>>
    /\ cfg \in ProtoCfgs
    /\ now = NowValue
    /\ last = NoLast
    /\ ticks = NoTicks
    /\ checker = [CheckerStart EXCEPT !.first_tick = TRUE]
    /\ pick = NoPick
    /\ spent = NoSpend

(***************************************************************************)
(* Login of the account (message.rs, LoggininSuccess / LoggininFailure).   *)
(***************************************************************************)
LoggininSuccess ==
    /\ status.tag = "LoggingIn"
    /\ \E gs \in ProtoSnapshots : status' = Idle(TheSession, gs)
    /\ last' = LastRec("LoggininSuccess", None, None, <<>>)
    /\ UNCHANGED <<holders, polled, automation_queue, cfg, now, ticks, checker, pick, spent>>

LoggininFailure ==
    /\ status.tag = "LoggingIn"
    /\ status' = FatalError
    /\ last' = LastRec("LoggininFailure", None, None, <<>>)
    /\ UNCHANGED <<holders, polled, automation_queue, cfg, now, ticks, checker, pick, spent>>

(***************************************************************************)
(* AutoPoll::check up to the send (player.rs).                             *)
(***************************************************************************)
AutoPollCheck ==
    LET t == take_session(status, "Auto Poll")
    IN  /\ status' = t.status
        /\ holders' = IF IsSome(t.res)
                      THEN Append(holders, Holder("AutoPoll", t.res[1], Update))
                      ELSE holders
        /\ last' = LastRec("AutoPollCheck",
                           Some(TakeRec(status, "Auto Poll", t, holders)), None,
                           IF IsSome(t.res) THEN <<Update>> ELSE <<>>)
        /\ UNCHANGED <<polled, automation_queue, cfg, now, ticks, checker, pick, spent>>

(***************************************************************************)
(* The end of a send whose future applies the response itself: the rest of *)
(* AutoPoll::check, and the callbacks of the tick's and the queue's sends. *)
(*   outcome "send_err"    send_command failed                             *)
(*           "update_err"  gs.update(resp) failed                          *)
(*           "ok"          the response became the snapshot gs2            *)
(***************************************************************************)
SendOutcomes == {"send_err", "update_err", "ok"}

SendCompletesWith(snapshots, unused) ==
    \E i \in DOMAIN holders, outcome \in SendOutcomes, gs2 \in snapshots :
        /\ holders[i].kind \in {"AutoPoll", "TickSend", "QueueSend"}
        /\ outcome = "ok" => polled < MaxPolled
        /\ outcome # "ok" => gs2 = unused
        /\ LET h == holders[i]
               failed == Holder("CommandFailed", h.session, 0)
           IN  IF outcome = "send_err"
               THEN /\ holders' = ReplaceAt(holders, i, failed)
                    /\ last' = LastRec("SendCompletes", None, None, <<>>)
                    /\ UNCHANGED <<status, polled>>
               ELSE IF status.tag # "Busy"
               THEN /\ status' = put_session(status, h.session)
                    /\ holders' = RemoveAt(holders, i)
                    /\ last' = LastRec("SendCompletes", None,
                                       Some(PutRec(status, h.session, status')), <<>>)
                    /\ UNCHANGED polled
               ELSE IF outcome = "update_err"
               THEN /\ holders' = ReplaceAt(holders, i, failed)
                    /\ last' = LastRec("SendCompletes", None, None, <<>>)
                    /\ UNCHANGED <<status, polled>>
               ELSE /\ status' = put_session(WithSnapshot(status, gs2), h.session)
                    /\ holders' = RemoveAt(holders, i)
                    /\ polled' = polled + 1
                    /\ last' = LastRec("SendCompletes", None,
                                       Some(PutRec(WithSnapshot(status, gs2), h.session,
                                                   status')), <<>>)
        /\ UNCHANGED <<automation_queue, cfg, now, ticks, checker, pick, spent>>

SendCompletes == SendCompletesWith(ProtoSnapshots, SnapQuestStart)

(***************************************************************************)
(* AutoMissionsChecker::check (player.rs).  Whatever the status and the    *)
(* timers of the snapshot are, the check sleeps and then returns           *)
(* RunAutomationTick; ticks counts the RunAutomationTick messages on      *)
(* their way to the handler, from the check, from a re-run that a handler  *)
(* has scheduled or from the Run now button.                               *)
(***************************************************************************)
FirstTickMs == Range(200, 600)
NotIdleBackoffMs == Range(1500, 3500)
DueJitterMs == Range(400, 1200)
NoTimerBackoffMs == Range(30000, 60000)
PostJitterMs == Range(300, 1200)
WaitCapSecs == 120

\* one timer of the snapshot: next_due becomes the earlier of the future
\* timers, a timer that has elapsed sets due_now, and so does an absent one
\* where the code says None => due_now = true
TimerStep(acc, timer, absent_is_due, now_) ==
    IF IsSome(timer)
    THEN IF timer[1] > now_
         THEN [acc EXCEPT !.next_due =
                    IF IsSome(acc.next_due) /\ acc.next_due[1] <= timer[1]
                    THEN acc.next_due ELSE timer]
         ELSE [acc EXCEPT !.due_now = TRUE]
    ELSE IF absent_is_due THEN [acc EXCEPT !.due_now = TRUE] ELSE acc

\* a check that leaves an absent pet or dungeon timer out instead of taking it
\* as due
CheckTimers_AbsentIsUnknown(gs, now_) ==
    LET t0 == [due_now |-> FALSE, next_due |-> None]
        action == gs.tavern.current_action
        t1 == IF action.kind = "Quest"
              THEN TimerStep(t0, Some(action.busy_until), FALSE, now_)
              ELSE IF /\ action.kind = "Expedition"
                      /\ IsSome(gs.tavern.expedition)
                      /\ gs.tavern.expedition[1].stage = "Waiting"
                   THEN TimerStep(t0, Some(gs.tavern.expedition[1].until), FALSE, now_)
                   ELSE t0
        t2 == IF IsSome(gs.pets)
              THEN TimerStep(TimerStep(t1, gs.pets[1].opponent.next_free_battle, FALSE, now_),
                             gs.pets[1].next_free_exploration, FALSE, now_)
              ELSE t1
        t3 == TimerStep(t2, gs.dungeons.next_free_fight, FALSE, now_)
    IN  IF IsSome(gs.guild)
        THEN TimerStep(t3, gs.guild[1].hydra.next_battle, FALSE, now_)
        ELSE t3

\* the timers of an Idle snapshot, in the order the check reads them
CheckTimers(gs, now_) ==
    LET t0 == [due_now |-> FALSE, next_due |-> None]
        action == gs.tavern.current_action
        t1 == IF action.kind = "Quest"
              THEN TimerStep(t0, Some(action.busy_until), FALSE, now_)
              ELSE IF /\ action.kind = "Expedition"
                      /\ IsSome(gs.tavern.expedition)
                      /\ gs.tavern.expedition[1].stage = "Waiting"
                   THEN TimerStep(t0, Some(gs.tavern.expedition[1].until), FALSE, now_)
                   ELSE t0
        t2 == IF IsSome(gs.pets)
              THEN TimerStep(TimerStep(t1, gs.pets[1].opponent.next_free_battle, TRUE, now_),
                             gs.pets[1].next_free_exploration, TRUE, now_)
              ELSE t1
        t3 == TimerStep(t2, gs.dungeons.next_free_fight, TRUE, now_)
    IN  IF IsSome(gs.guild)
        THEN TimerStep(t3, gs.guild[1].hydra.next_battle, FALSE, now_)
        ELSE t3

\* a check that sleeps until the earliest timer however far ahead it is
CheckSleep_Uncapped(st, now_) ==
    LET t == IF st.tag = "Idle" THEN CheckTimers(st.gs, now_)
             ELSE [due_now |-> FALSE, next_due |-> None]
    IN  IF t.due_now THEN DueJitterMs
        ELSE IF IsSome(t.next_due)
             THEN IF t.next_due[1] > now_
                  THEN Range(1000 * (t.next_due[1] - now_), 1000 * (t.next_due[1] - now_))
                  ELSE DueJitterMs
             ELSE NoTimerBackoffMs

\* the sleep before the post-wait jitter; st is the status the second lock
\* of the check finds, which is no longer Idle when a handler took the
\* session since the first lock
CheckSleep(st, now_) ==
    LET t == IF st.tag = "Idle" THEN CheckTimers(st.gs, now_)
             ELSE [due_now |-> FALSE, next_due |-> None]
    IN  IF t.due_now THEN DueJitterMs
        ELSE IF IsSome(t.next_due)
             THEN IF t.next_due[1] > now_
                  THEN LET wait_full == 1000 * (t.next_due[1] - now_)
                           wait == IF wait_full > 1000 * WaitCapSecs
                                   THEN 1000 * WaitCapSecs ELSE wait_full
                       IN  Range(wait, wait)
                  ELSE DueJitterMs
             ELSE NoTimerBackoffMs

\* a check that retries in silence while the account is not Idle
AutoMissionsCheck_SilentWhenNotIdle ==
    /\ ~tick_scheduled
    /\ IF checker.first_tick
       THEN /\ checker' = [checker EXCEPT !.first_tick = FALSE]
            /\ ticks' = TickScheduled
            /\ last' = Scheduled(LastRec("AutoMissionsCheck", None, None, <<>>),
                                 Delay(FirstTickMs, None))
       ELSE IF checker.pc = "start"
       THEN IF status.tag # "Idle"
            THEN UNCHANGED <<checker, ticks, last>>
            ELSE /\ checker' = [checker EXCEPT !.pc = "idle_seen"]
                 /\ UNCHANGED <<ticks, last>>
       ELSE /\ checker' = [checker EXCEPT !.pc = "start"]
            /\ ticks' = TickScheduled
            /\ last' = Scheduled(LastRec("AutoMissionsCheck", None, None, <<>>),
                                 Delay(CheckSleep(status, now), Some(PostJitterMs)))
    /\ UNCHANGED <<status, holders, polled, automation_queue, cfg, now, pick, spent>>

\* first_tick; the first lock (is_idle); the second lock with the timers
AutoMissionsCheck ==
    /\ ~tick_scheduled
    /\ IF checker.first_tick
       THEN /\ checker' = [checker EXCEPT !.first_tick = FALSE]
            /\ ticks' = TickScheduled
            /\ last' = Scheduled(LastRec("AutoMissionsCheck", None, None, <<>>),
                                 Delay(FirstTickMs, None))
       ELSE IF checker.pc = "start"
       THEN IF status.tag # "Idle"
            THEN /\ ticks' = TickScheduled
                 /\ last' = Scheduled(LastRec("AutoMissionsCheck", None, None, <<>>),
                                      Delay(NotIdleBackoffMs, None))
                 /\ UNCHANGED checker
            ELSE /\ checker' = [checker EXCEPT !.pc = "idle_seen"]
                 /\ UNCHANGED <<ticks, last>>
       ELSE /\ checker' = [checker EXCEPT !.pc = "start"]
            /\ ticks' = TickScheduled
            /\ last' = Scheduled(LastRec("AutoMissionsCheck", None, None, <<>>),
                                 Delay(CheckSleep(status, now), Some(PostJitterMs)))
    /\ UNCHANGED <<status, holders, polled, automation_queue, cfg, now, pick, spent>>

(***************************************************************************)
(* Message::RunAutomationTick (message.rs).  The status lock is held from  *)
(* the Idle test to the take_session, so the handler is one step.          *)
(***************************************************************************)

\* the sleeps of the re-runs the handlers schedule
RerunDelayMs == Range(500, 1500)
QueueRerunDelayMs == Range(400, 1200)
PolledRerunDelayMs == Range(30, 90)

\* the branch taken when take_session returns None: what the queue becomes
QueueWhenBusy(queue, cmd) ==
    IF cmd = Update THEN queue
    ELSE IF is_primary(cmd) /\ \E k \in DOMAIN queue : is_primary(queue[k])
         THEN queue
         ELSE Append(queue, cmd)

\* the budget a command spends from: the use-mushroom flag of a dungeon fight
\* or of a pet exploration, and every BuyBeer
BudgetOf(cmd) ==
    IF cmd.c = "FightTower" /\ cmd.use_mush THEN "dungeon_skip"
    ELSE IF cmd.c = "FightDungeon" /\ cmd.use_mushroom THEN "dungeon_skip"
    ELSE IF cmd.c = "FightPetDungeon" /\ cmd.use_mush THEN "pet_skip"
    ELSE IF cmd.c = "BuyBeer" THEN "beer"
    ELSE "none"

MaxSpent == 2

\* the history is kept up to MaxSpent sends for a budget
CanCount(cmd) == BudgetOf(cmd) \in Budgets => spent[BudgetOf(cmd)] < MaxSpent

SpentAfter(cmd) ==
    IF BudgetOf(cmd) \in Budgets
    THEN [spent EXCEPT ![BudgetOf(cmd)] = @ + 1]
    ELSE spent

\* a tick that decides from the Busy snapshot and queues without the primary test
RunAutomationTick_QueuesWhenBusy ==
    \E kind \in TickKinds :
    /\ ticks[kind] > 0 /\ ticks' = TickTaken(kind)
    /\ IsSome(cfg) /\ AnyEnabled(cfg[1])
    /\ IF status.tag = "Busy"
       THEN /\ automation_queue' =
                    Append(automation_queue, ChosenCmd(status.gs, cfg[1], now))
            /\ last' = LastRec("RunAutomationTick", None, None, <<>>)
            /\ UNCHANGED <<status, holders, spent>>
       ELSE /\ status.tag = "Idle"
            /\ status' = Busy(status.gs, "Automation")
            /\ CanCount(ChosenCmd(status.gs, cfg[1], now))
            /\ spent' = SpentAfter(ChosenCmd(status.gs, cfg[1], now))
            /\ holders' = Append(holders,
                    Holder("TickSend", status.session, ChosenCmd(status.gs, cfg[1], now)))
            /\ last' = LastRec("RunAutomationTick", None, None,
                               <<ChosenCmd(status.gs, cfg[1], now)>>)
            /\ UNCHANGED automation_queue
    /\ UNCHANGED <<polled, cfg, now, checker, pick>>

\* a tick that gives up without a re-run when the account is not Idle
RunAutomationTick_NoRerun ==
    \E kind \in TickKinds :
    /\ ticks[kind] > 0
    /\ IF IsNone(cfg) \/ ~AnyEnabled(cfg[1]) \/ status.tag # "Idle"
       THEN \* Command::none(), or the re-run scheduled when the account is not Idle
            /\ last' = LastRec("RunAutomationTick", None, None, <<>>)
            /\ ticks' = TickTaken(kind)
            /\ UNCHANGED <<status, holders, automation_queue, spent>>
       ELSE LET cmd == ChosenCmd(status.gs, cfg[1], now)
                t == take_session(status, "Automation")
                tr == Some(TakeRec(status, "Automation", t, holders))
            IN  /\ status' = t.status
                /\ ticks' = IF IsNone(t.res) THEN TickRerun(kind) ELSE TickTaken(kind)
                /\ IF IsNone(t.res)
                   THEN /\ automation_queue' = QueueWhenBusy(automation_queue, cmd)
                        /\ last' = Scheduled(LastRec("RunAutomationTick", tr, None, <<>>),
                                             Delay(QueueRerunDelayMs, None))
                        /\ UNCHANGED <<holders, spent>>
                   ELSE /\ CanCount(cmd)
                        /\ spent' = SpentAfter(cmd)
                        /\ holders' = Append(holders, Holder("TickSend", t.res[1], cmd))
                        /\ last' = LastRec("RunAutomationTick", tr, None, <<cmd>>)
                        /\ UNCHANGED automation_queue
    /\ UNCHANGED <<polled, cfg, now, checker, pick>>

\* a tick that decides on the snapshot of a Busy account as well
RunAutomationTick_DecidesWhenBusy ==
    \E kind \in TickKinds :
    /\ ticks[kind] > 0
    /\ IF IsNone(cfg) \/ ~AnyEnabled(cfg[1]) \/ status.tag \notin {"Idle", "Busy"}
       THEN \* Command::none(), or the re-run scheduled when the account is not Idle
            /\ last' = IF IsSome(cfg) /\ AnyEnabled(cfg[1])
                       THEN Scheduled(LastRec("RunAutomationTick", None, None, <<>>),
                                      Delay(RerunDelayMs, None))
                       ELSE LastRec("RunAutomationTick", None, None, <<>>)
            /\ ticks' = IF IsSome(cfg) /\ AnyEnabled(cfg[1])
                      THEN TickRerun(kind) ELSE TickTaken(kind)
            /\ UNCHANGED <<status, holders, automation_queue, spent>>
       ELSE LET cmd == ChosenCmd(status.gs, cfg[1], now)
                t == take_session(status, "Automation")
                tr == Some(TakeRec(status, "Automation", t, holders))
            IN  /\ status' = t.status
                /\ ticks' = IF IsNone(t.res) THEN TickRerun(kind) ELSE TickTaken(kind)
                /\ IF IsNone(t.res)
                   THEN /\ automation_queue' = QueueWhenBusy(automation_queue, cmd)
                        /\ last' = Scheduled(LastRec("RunAutomationTick", tr, None, <<>>),
                                             Delay(QueueRerunDelayMs, None))
                        /\ UNCHANGED <<holders, spent>>
                   ELSE /\ CanCount(cmd)
                        /\ spent' = SpentAfter(cmd)
                        /\ holders' = Append(holders, Holder("TickSend", t.res[1], cmd))
                        /\ last' = LastRec("RunAutomationTick", tr, None, <<cmd>>)
                        /\ UNCHANGED automation_queue
    /\ UNCHANGED <<polled, cfg, now, checker, pick>>

RunAutomationTick ==
    \E kind \in TickKinds :
    /\ ticks[kind] > 0
    /\ IF IsNone(cfg) \/ ~AnyEnabled(cfg[1]) \/ status.tag # "Idle"
       THEN \* Command::none(), or the re-run scheduled when the account is not Idle
            /\ last' = IF IsSome(cfg) /\ AnyEnabled(cfg[1])
                       THEN Scheduled(LastRec("RunAutomationTick", None, None, <<>>),
                                      Delay(RerunDelayMs, None))
                       ELSE LastRec("RunAutomationTick", None, None, <<>>)
            /\ ticks' = IF IsSome(cfg) /\ AnyEnabled(cfg[1])
                      THEN TickRerun(kind) ELSE TickTaken(kind)
            /\ UNCHANGED <<status, holders, automation_queue, spent>>
       ELSE LET cmd == ChosenCmd(status.gs, cfg[1], now)
                t == take_session(status, "Automation")
                tr == Some(TakeRec(status, "Automation", t, holders))
            IN  /\ status' = t.status
                /\ ticks' = IF IsNone(t.res) THEN TickRerun(kind) ELSE TickTaken(kind)
                /\ IF IsNone(t.res)
                   THEN /\ automation_queue' = QueueWhenBusy(automation_queue, cmd)
                        /\ last' = Scheduled(LastRec("RunAutomationTick", tr, None, <<>>),
                                             Delay(QueueRerunDelayMs, None))
                        /\ UNCHANGED <<holders, spent>>
                   ELSE /\ CanCount(cmd)
                        /\ spent' = SpentAfter(cmd)
                        /\ holders' = Append(holders, Holder("TickSend", t.res[1], cmd))
                        /\ last' = LastRec("RunAutomationTick", tr, None, <<cmd>>)
                        /\ UNCHANGED automation_queue
    /\ UNCHANGED <<polled, cfg, now, checker, pick>>

(***************************************************************************)
(* Message::PlayerPolled (message.rs).                                     *)
(***************************************************************************)

\* the expedition stage asks for another decision at once
NeedsMore(gs) ==
    /\ gs.tavern.current_action.kind = "Expedition"
    /\ IsSome(gs.tavern.expedition)
    /\ gs.tavern.expedition[1].stage \notin {"Waiting", "Finished", "Unknown"}

PlayerPolled ==
    /\ polled > 0
    /\ polled' = polled - 1
    /\ IF status.tag \notin {"Busy", "Idle"}
       THEN /\ last' = LastRec("PlayerPolled", None, None, <<>>)
            /\ UNCHANGED <<status, holders, automation_queue, ticks>>
       ELSE IF /\ IsSome(cfg) /\ cfg[1].auto_expeditions
               /\ NeedsMore(status.gs) /\ automation_queue = <<>>
       THEN \* a RunAutomationTick is scheduled; nothing else happens.  As with
            \* the check, one scheduled tick is followed at a time
            /\ ~tick_scheduled
            /\ last' = Scheduled(LastRec("PlayerPolled", None, None, <<>>),
                                 Delay(PolledRerunDelayMs, None))
            /\ ticks' = TickScheduled
            /\ UNCHANGED <<status, holders, automation_queue>>
       ELSE IF automation_queue = <<>>
       THEN /\ last' = LastRec("PlayerPolled", None, None, <<>>)
            /\ UNCHANGED <<status, holders, automation_queue, ticks>>
       ELSE LET cmd == Head(automation_queue)
                t == take_session(status, "AutomationQueue")
                tr == Some(TakeRec(status, "AutomationQueue", t, holders))
            IN  /\ status' = t.status
                /\ UNCHANGED ticks
                /\ IF IsSome(t.res)
                   THEN /\ automation_queue' = Tail(automation_queue)
                        /\ holders' = Append(holders, Holder("QueueSend", t.res[1], cmd))
                        /\ last' = LastRec("PlayerPolled", tr, None, <<cmd>>)
                   ELSE /\ last' = LastRec("PlayerPolled", tr, None, <<>>)
                        /\ UNCHANGED <<holders, automation_queue>>
    /\ UNCHANGED <<cfg, now, checker, pick, spent>>

(***************************************************************************)
(* Arena fights and underworld lures (message.rs).  What the handlers read *)
(* outside the status cell (the crawler, the arena timer, the target       *)
(* lists) is the environment's choice.                                     *)
(***************************************************************************)
FightCmd == [c |-> "Fight", use_mushroom |-> FALSE]
UnderworldAttack == [c |-> "UnderworldAttack"]

\* Message::AutoBattlePossible (kind "Fight", reason "A Fighting") and
\* Message::AutoLurePossible (kind "Lure", reason "Luring"):
\* ready: the crawler runs and the timer / lure count allows the action;
\* target: the best-list holds a fresh target
AutoAction(kind, reason, cmd) ==
    \E ready \in BOOLEAN, target \in BOOLEAN :
        /\ ~ready => target
        /\ IF ~ready \/ status.tag # "Idle"
           THEN /\ last' = LastRec(kind, None, None, <<>>)
                /\ UNCHANGED <<status, holders>>
           ELSE LET t == take_session(status, reason)
                    tr == Some(TakeRec(status, reason, t, holders))
                IN  IF IsNone(t.res)
                    THEN /\ status' = t.status
                         /\ last' = LastRec(kind, tr, None, <<>>)
                         /\ UNCHANGED holders
                    ELSE IF ~target
                    THEN /\ status' = put_session(t.status, t.res[1])
                         /\ last' = LastRec(kind, tr,
                                            Some(PutRec(t.status, t.res[1], status')), <<>>)
                         /\ UNCHANGED holders
                    ELSE /\ status' = t.status
                         /\ holders' = Append(holders, Holder(kind, t.res[1], cmd))
                         /\ last' = LastRec(kind, tr, None, <<cmd>>)
        /\ UNCHANGED <<polled, automation_queue, cfg, now, ticks, checker, pick, spent>>

AutoBattlePossible == AutoAction("Fight", "A Fighting", FightCmd)

AutoLurePossible == AutoAction("Lure", "Luring", UnderworldAttack)

\* Message::PlayerAttack: the user's attack
PlayerAttack ==
    \E ready \in BOOLEAN :
        /\ IF ~ready \/ status.tag # "Idle"
           THEN /\ last' = LastRec("PlayerAttack", None, None, <<>>)
                /\ UNCHANGED <<status, holders>>
           ELSE LET t == take_session(status, "Fighting")
                    tr == Some(TakeRec(status, "Fighting", t, holders))
                IN  /\ status' = t.status
                    /\ IF IsNone(t.res)
                       THEN /\ last' = LastRec("PlayerAttack", tr, None, <<>>)
                            /\ UNCHANGED holders
                       ELSE /\ holders' = Append(holders, Holder("Fight", t.res[1], FightCmd))
                            /\ last' = LastRec("PlayerAttack", tr, None, <<FightCmd>>)
        /\ UNCHANGED <<polled, automation_queue, cfg, now, ticks, checker, pick, spent>>

\* Message::PlayerLure: the user's lure; the handler takes without testing Idle
PlayerLure ==
    \E ready \in BOOLEAN :
        /\ IF ~ready
           THEN /\ last' = LastRec("PlayerLure", None, None, <<>>)
                /\ UNCHANGED <<status, holders>>
           ELSE LET t == take_session(status, "Luring")
                    tr == Some(TakeRec(status, "Luring", t, holders))
                IN  /\ status' = t.status
                    /\ IF IsNone(t.res)
                       THEN /\ last' = LastRec("PlayerLure", tr, None, <<>>)
                            /\ UNCHANGED holders
                       ELSE /\ holders' = Append(holders,
                                                 Holder("Lure", t.res[1], UnderworldAttack))
                            /\ last' = LastRec("PlayerLure", tr, None, <<UnderworldAttack>>)
        /\ UNCHANGED <<polled, automation_queue, cfg, now, ticks, checker, pick, spent>>

\* the future of a fight or lure ends: its result is a message carrying the session
FightSendCompletes ==
    \E i \in DOMAIN holders, ok \in BOOLEAN :
        /\ holders[i].kind \in {"Fight", "Lure"}
        /\ holders' = ReplaceAt(holders, i,
                IF ok THEN Holder(IF holders[i].kind = "Fight" THEN "PlayerAttackResult"
                                  ELSE "PlayerLureResult", holders[i].session, 0)
                ELSE Holder("CommandFailed", holders[i].session, 0))
        /\ last' = LastRec("FightSendCompletes", None, None, <<>>)
        /\ UNCHANGED <<status, polled, automation_queue, cfg, now, ticks, checker, pick, spent>>

\* Message::PlayerAttackResult and Message::PlayerLureResult:
\* outcome "update_err"  s.update(resp) failed
\*         "no_record"   last_fight, or the scrapbook / underworld info, is None
\*         "ok"          the result is logged and the session put back
ResultOutcomes == {"update_err", "no_record", "ok"}

PlayerFightResult ==
    \E i \in DOMAIN holders, outcome \in ResultOutcomes, gs2 \in ProtoSnapshots :
        /\ holders[i].kind \in {"PlayerAttackResult", "PlayerLureResult"}
        /\ outcome = "update_err" => gs2 = SnapQuestStart
        /\ holders' = RemoveAt(holders, i)
        /\ IF status.tag # "Busy"
           THEN /\ last' = LastRec("PlayerFightResult", None, None, <<>>)
                /\ UNCHANGED status
           ELSE IF outcome = "update_err"
           THEN /\ status' = FatalError
                /\ last' = LastRec("PlayerFightResult", None, None, <<>>)
           ELSE IF outcome = "no_record"
           THEN /\ status' = WithSnapshot(status, gs2)
                /\ last' = LastRec("PlayerFightResult", None, None, <<>>)
           ELSE /\ status' = put_session(WithSnapshot(status, gs2), holders[i].session)
                /\ last' = LastRec("PlayerFightResult", None,
                                   Some(PutRec(WithSnapshot(status, gs2),
                                               holders[i].session, status')), <<>>)
        /\ UNCHANGED <<polled, automation_queue, cfg, now, ticks, checker, pick, spent>>

(***************************************************************************)
(* Re-login after a failed command (message.rs).                           *)
(***************************************************************************)

\* a handler that sends again with the session it was given instead of
\* logging in again
PlayerCommandFailed_Resends ==
    \E i \in DOMAIN holders :
        /\ holders[i].kind = "CommandFailed"
        /\ status' = LoggingInAgain
        /\ holders' = ReplaceAt(holders, i,
                                Holder("TickSend", holders[i].session, Update))
        /\ last' = LastRec("PlayerCommandFailed", None, None, <<Update>>)
        /\ UNCHANGED <<polled, automation_queue, cfg, now, ticks, checker, pick, spent>>

\* Message::PlayerCommandFailed: the status becomes LoggingInAgain and the
\* login future starts with the session
PlayerCommandFailed ==
    \E i \in DOMAIN holders :
        /\ holders[i].kind = "CommandFailed"
        /\ status' = LoggingInAgain
        /\ holders' = ReplaceAt(holders, i,
                                Holder("Relogin", holders[i].session, holders[i].info))
        /\ last' = LastRec("PlayerCommandFailed", None, None, <<>>)
        /\ UNCHANGED <<polled, automation_queue, cfg, now, ticks, checker, pick, spent>>

\* the login future ends: PlayerRelogSuccess with a fresh snapshot, or
\* PlayerCommandFailed with attempt + 1
ReloginCompletes ==
    \E i \in DOMAIN holders, ok \in BOOLEAN, gs2 \in ProtoSnapshots :
        /\ holders[i].kind = "Relogin"
        /\ ~ok => (gs2 = SnapQuestStart /\ holders[i].info < MaxAttempt)
        /\ holders' = ReplaceAt(holders, i,
                IF ok THEN Holder("PlayerRelogSuccess", holders[i].session, gs2)
                ELSE Holder("CommandFailed", holders[i].session, holders[i].info + 1))
        /\ last' = LastRec("ReloginCompletes", None, None, <<>>)
        /\ UNCHANGED <<status, polled, automation_queue, cfg, now, ticks, checker, pick, spent>>

\* Message::PlayerRelogSuccess: Busy("Waiting") with the new snapshot; the
\* session travels on in the delayed PlayerRelogDelay
PlayerRelogSuccess ==
    \E i \in DOMAIN holders :
        /\ holders[i].kind = "PlayerRelogSuccess"
        /\ status' = Busy(holders[i].info, "Waiting")
        /\ holders' = ReplaceAt(holders, i,
                                Holder("PlayerRelogDelay", holders[i].session, 0))
        /\ last' = LastRec("PlayerRelogSuccess", None, None, <<>>)
        /\ UNCHANGED <<polled, automation_queue, cfg, now, ticks, checker, pick, spent>>

\* a delay handler that forgets to put the session back
PlayerRelogDelay_KeepsBusy ==
    \E i \in DOMAIN holders :
        /\ holders[i].kind = "PlayerRelogDelay"
        /\ holders' = RemoveAt(holders, i)
        /\ last' = LastRec("PlayerRelogDelay", None, None, <<>>)
        /\ UNCHANGED <<status, polled, automation_queue, cfg, now, ticks, checker, pick, spent>>

\* Message::PlayerRelogDelay: the session is put back
PlayerRelogDelay ==
    \E i \in DOMAIN holders :
        /\ holders[i].kind = "PlayerRelogDelay"
        /\ status' = put_session(status, holders[i].session)
        /\ holders' = RemoveAt(holders, i)
        /\ last' = LastRec("PlayerRelogDelay", None,
                           Some(PutRec(status, holders[i].session, status')), <<>>)
        /\ UNCHANGED <<polled, automation_queue, cfg, now, ticks, checker, pick, spent>>

Next ==
    \/ LoggininSuccess
    \/ LoggininFailure
    \/ AutoPollCheck
    \/ AutoMissionsCheck
    \/ SendCompletes
    \/ RunAutomationTick
    \/ PlayerPolled
    \/ AutoBattlePossible
    \/ AutoLurePossible
    \/ PlayerAttack
    \/ PlayerLure
    \/ FightSendCompletes
    \/ PlayerFightResult
    \/ PlayerCommandFailed
    \/ ReloginCompletes
    \/ PlayerRelogSuccess
    \/ PlayerRelogDelay

Spec == Init /\ [][Next]_vars

\* the runtime delivers the message of every finished future, and the login
\* future of PlayerCommandFailed finishes: it awaits the login and a sleep
SpecRelogin ==
    /\ Init /\ [][Next]_vars
    /\ WF_vars(PlayerCommandFailed)
    /\ WF_vars(ReloginCompletes)
    /\ WF_vars(PlayerRelogSuccess)
    /\ WF_vars(PlayerRelogDelay)

\* each account runs one scheduler that wakes, decides and repeats: the check
\* is started again whenever it has returned, and the runtime delivers the
\* RunAutomationTick it returns
SpecSchedule ==
    /\ Init /\ [][Next]_vars
    /\ WF_vars(AutoMissionsCheck)
    /\ WF_vars(RunAutomationTick)

(***************************************************************************)
(* take_session and put_session as functions of the status: every status   *)
(* value as input, any caller, either Box<Session>.                        *)
(***************************************************************************)
OtherSession == "session2"
Sessions == {TheSession, OtherSession}

\* the reason strings the callers pass
Reasons == {"Auto Poll", "Automation", "AutomationQueue", "A Fighting", "Fighting",
            "Luring", "Waiting"}

StatusValues ==
    {LoggingIn, LoggingInAgain, FatalError}
        \cup {Idle(s, gs) : s \in Sessions, gs \in ProtoSnapshots}
        \cup {Busy(gs, r) : gs \in ProtoSnapshots, r \in Reasons}

InitSession ==
    /\ status \in StatusValues
    /\ holders = <<>>
    /\ polled = 0
    /\ automation_queue = <<>>
    /\ cfg = None
    /\ now = NowValue
    /\ last = NoLast
    /\ ticks = NoTicks
    /\ checker = CheckerStart
    /\ pick = NoPick
    /\ spent = NoSpend

CallTake ==
    \E reason \in Reasons :
        LET t == take_session(status, reason)
        IN  /\ status' = t.status
            /\ last' = LastRec("take_session",
                               Some(TakeRec(status, reason, t, holders)), None, <<>>)
            /\ UNCHANGED <<holders, polled, automation_queue, cfg, now, ticks,
                           checker, pick, spent>>

CallPut ==
    \E session \in Sessions :
        /\ status' = put_session(status, session)
        /\ last' = LastRec("put_session", None,
                           Some(PutRec(status, session, status')), <<>>)
        /\ UNCHANGED <<holders, polled, automation_queue, cfg, now, ticks, checker, pick, spent>>

NextSession == CallTake \/ CallPut

SpecSession == InitSession /\ [][NextSession]_vars

(***************************************************************************)
(* One tick on an Idle account whose tavern action is guard duty, over the *)
(* snapshots and configurations that reach every step of the guard branch. *)
(***************************************************************************)
GuardPets ==
    [opponent |-> [habitat |-> None, next_free_battle |-> Some(Past), id |-> 7],
     habitats |-> << [battled_opponent |-> TRUE,
                      pets |-> << [id |-> 1, level |-> 5] >>,
                      exploration |-> Some(2)],
                     [battled_opponent |-> FALSE,
                      pets |-> << [id |-> 2, level |-> 9], [id |-> 3, level |-> 4] >>,
                      exploration |-> None] >>,
     next_free_exploration |-> Some(Later)]

GuardGuild == [hydra |-> [remaining_fights |-> 1, next_battle |-> Some(Past)]]

GuardSnapshots ==
    { [BaseSnapshot EXCEPT
            !.tavern.current_action = [kind |-> "CityGuard", busy_until |-> until],
            !.tavern.thirst_for_adventure_sec = thirst,
            !.dungeons.portal = portal,
            !.dungeons.next_free_fight = fight.next,
            !.dungeons.light = fight.light,
            !.dungeons.tower = fight.tower,
            !.character.mushrooms = fight.mushrooms,
            !.pets = pets,
            !.guild = guild] :
        until \in {Past, NowValue, Soon},
        thirst \in {0, 1000},
        portal \in {None, Some(FALSE), Some(TRUE)},
        fight \in {[next |-> Some(Past), light |-> <<Some(4), Some(2)>>,
                    tower |-> None, mushrooms |-> 0],
                   [next |-> None, light |-> <<None, None>>,
                    tower |-> Some(3), mushrooms |-> 0],
                   [next |-> Some(Later), light |-> <<None, None>>,
                    tower |-> None, mushrooms |-> 0],
                   [next |-> Some(Later), light |-> <<None, Some(1)>>,
                    tower |-> None, mushrooms |-> 5]},
        pets \in {None, Some(GuardPets)},
        guild \in {None, Some(GuardGuild)} }

GuardCfgs ==
    { [BaseCfg EXCEPT
            !.auto_tavern = tavern, !.auto_expeditions = tavern,
            !.auto_dungeons = dungeons, !.auto_pets = pets, !.auto_guild = guild,
            !.auto_guild_accept_defense = defense,
            !.auto_guild_accept_attack = FALSE,
            !.max_mushrooms_dungeon_skip = skip] :
        tavern \in BOOLEAN, dungeons \in BOOLEAN, pets \in BOOLEAN, guild \in BOOLEAN,
        defense \in BOOLEAN, skip \in {0, 1} }

InitGuard ==
    /\ \E gs \in GuardSnapshots : status = Idle(TheSession, gs)
    /\ holders = <<>>
    /\ polled = 0
    /\ automation_queue = <<>>
    /\ \E c \in GuardCfgs : AnyEnabled(c) /\ cfg = Some(c)
    /\ now = NowValue
    /\ last = NoLast
    /\ ticks = OneTick
    /\ checker = CheckerStart
    /\ pick = NoPick
    /\ spent = NoSpend

NextGuard == RunAutomationTick

SpecGuard == InitGuard /\ [][NextGuard]_vars

(***************************************************************************)
(* One tick on an Idle account in each tavern state: a quest running or    *)
(* over, an expedition waiting or at its boss, guard duty running, and the *)
(* idle tavern with and without thirst, beer, dungeons, pets and a guild.  *)
(***************************************************************************)
OnThreshold == NowValue + SkipThresholdSecs
OverThreshold == OnThreshold + 1

WaitingExpedition ==
    [stage |-> "Waiting", rewards |-> <<>>, encounters |-> 0, until |-> Later]

QuestSnapshots ==
    { [BaseSnapshot EXCEPT
            !.tavern.current_action = [kind |-> "Quest", busy_until |-> until],
            !.tavern.quicksand_glasses = glasses,
            !.dungeons.portal = portal,
            !.dungeons.next_free_fight = fight.next,
            !.dungeons.light = fight.light] :
        until \in {Past, NowValue, Soon, OnThreshold, OverThreshold, Later},
        glasses \in {0, 1},
        portal \in {None, Some(FALSE), Some(TRUE)},
        fight \in {[next |-> Some(Past), light |-> <<Some(4), Some(2)>>],
                   [next |-> Some(Later), light |-> <<None, None>>]} }

ExpeditionSnapshots ==
    { [BaseSnapshot EXCEPT
            !.tavern.current_action = [kind |-> "Expedition", busy_until |-> Past],
            !.tavern.expedition = expedition,
            !.tavern.quicksand_glasses = glasses,
            !.dungeons.portal = portal] :
        expedition \in {None, Some(WaitingExpedition),
                        Some([WaitingExpedition EXCEPT !.stage = "Boss"]),
                        Some([WaitingExpedition EXCEPT !.stage = "Finished"])},
        glasses \in {0, 1},
        portal \in {None, Some(TRUE)} }

RunningGuardSnapshots ==
    { gs \in GuardSnapshots :
        /\ gs.tavern.current_action.busy_until = Soon
        /\ gs.tavern.thirst_for_adventure_sec = 0
        /\ gs.pets = None /\ gs.guild = None }

\* the tavern offers expeditions only while the account prefers them
IdleTavernSnapshots ==
    { [BaseSnapshot EXCEPT
            !.tavern.thirst_for_adventure_sec = thirst,
            !.tavern.available_tasks = tasks,
            !.tavern.questing_preference =
                IF tasks = "Expeditions" THEN "PreferExpeditions" ELSE "PreferQuests",
            !.tavern.beer_drunk = beer.drunk,
            !.character.mushrooms = beer.mushrooms,
            !.dungeons.portal = portal,
            !.dungeons.next_free_fight = fight.next,
            !.dungeons.light = fight.light,
            !.pets = pets,
            !.guild = guild] :
        thirst \in {0, 1000},
        tasks \in {"Quests", "Expeditions"},
        beer \in {[drunk |-> 0, mushrooms |-> 0], [drunk |-> 0, mushrooms |-> 5],
                  [drunk |-> BaseBeerCap, mushrooms |-> 5]},
        portal \in {None, Some(TRUE)},
        fight \in {[next |-> Some(Past), light |-> <<Some(4), Some(2)>>],
                   [next |-> Some(Later), light |-> <<None, None>>]},
        pets \in {None, Some(GuardPets)},
        guild \in {None, Some(GuardGuild)} }

TavernSnapshots ==
    QuestSnapshots \cup ExpeditionSnapshots \cup RunningGuardSnapshots
        \cup IdleTavernSnapshots

TavernCfgs ==
    { [BaseCfg EXCEPT
            !.auto_tavern = tavern, !.auto_expeditions = expeditions,
            !.auto_dungeons = dungeons, !.auto_pets = pets, !.auto_guild = guild,
            !.use_glasses_for_tavern = glass, !.use_glasses_for_expeditions = glass,
            !.auto_buy_beer_mushrooms = beer.buy, !.max_mushrooms_beer = beer.budget] :
        tavern \in BOOLEAN, expeditions \in BOOLEAN, dungeons \in BOOLEAN,
        pets \in BOOLEAN, guild \in BOOLEAN, glass \in BOOLEAN,
        beer \in {[buy |-> FALSE, budget |-> 0], [buy |-> TRUE, budget |-> 0],
                  [buy |-> TRUE, budget |-> 1]} }

InitTavern ==
    /\ \E gs \in TavernSnapshots : status = Idle(TheSession, gs)
    /\ holders = <<>>
    /\ polled = 0
    /\ automation_queue = <<>>
    /\ \E c \in TavernCfgs : AnyEnabled(c) /\ cfg = Some(c)
    /\ now = NowValue
    /\ last = NoLast
    /\ ticks = OneTick
    /\ checker = CheckerStart
    /\ pick = NoPick
    /\ spent = NoSpend

NextTavern == RunAutomationTick

SpecTavern == InitTavern /\ [][NextTavern]_vars

(***************************************************************************)
(* One check of AutoMissionsChecker on each combination of timers: the     *)
(* tavern timer (a quest's end, an expedition's wait), the two pet timers, *)
(* the dungeon timer and the hydra timer, each absent, elapsed, ahead or   *)
(* ahead by more than the cap; AutoPoll can take the session between the   *)
(* two reads of the check.                                                 *)
(***************************************************************************)
BeyondCap == NowValue + WaitCapSecs + 1

TimerTaverns ==
    { [BaseTavern EXCEPT !.current_action = [kind |-> "Quest", busy_until |-> until]] :
        until \in {Past, Soon, BeyondCap} }
    \cup { [BaseTavern EXCEPT
                !.current_action = [kind |-> "Expedition", busy_until |-> Past],
                !.expedition = expedition] :
            expedition \in {None, Some([WaitingExpedition EXCEPT !.until = NowValue]),
                            Some(WaitingExpedition),
                            Some([WaitingExpedition EXCEPT !.stage = "Boss"])} }
    \cup {BaseTavern}

TimerPets ==
    { [GuardPets EXCEPT !.opponent.next_free_battle = battle,
                        !.next_free_exploration = exploration] :
        battle \in {None, Some(Soon), Some(BeyondCap)},
        exploration \in {None, Some(Past), Some(Later)} }

TimerSnapshots ==
    { [BaseSnapshot EXCEPT
            !.tavern = tavern,
            !.pets = pets,
            !.dungeons.next_free_fight = fight,
            !.guild = guild] :
        tavern \in TimerTaverns,
        pets \in {None} \cup {Some(p) : p \in TimerPets},
        fight \in {None, Some(Past), Some(Soon), Some(BeyondCap)},
        guild \in {None} \cup {Some([GuardGuild EXCEPT !.hydra.next_battle = next]) :
                                  next \in {None, Some(NowValue), Some(Soon)}} }

InitChecker ==
    /\ status \in {Idle(TheSession, gs) : gs \in TimerSnapshots}
                    \cup {LoggingIn, FatalError}
    /\ holders = <<>>
    /\ polled = 0
    /\ automation_queue = <<>>
    /\ cfg = Some(BaseCfg)
    /\ now = NowValue
    /\ last = NoLast
    /\ ticks = NoTicks
    /\ checker \in {CheckerStart, [CheckerStart EXCEPT !.first_tick = TRUE]}
    /\ pick = NoPick
    /\ spent = NoSpend

NextChecker ==
    \/ AutoMissionsCheck
    \/ AutoPollCheck

SpecChecker == InitChecker /\ [][NextChecker]_vars

(***************************************************************************)
(* pick_mission (automation.rs), the shared picker of quests and           *)
(* expeditions, with rate, gpm and xpm.                                    *)
(*                                                                         *)
(* A u64 is written [top, low] for top * 2^63 + low, so that the values on *)
(* both sides of the i64 sign bit are at hand; an f64 is written as an     *)
(* exact fraction [k |-> "fin", n, d], as [k |-> "inf"] or as              *)
(* [k |-> "nan"], which is exact for the IEEE rules on infinities and NaN  *)
(* and leaves rounding out.                                                *)
(***************************************************************************)
Strategies == {"Shortest", "MostGold", "BestGoldPerMinute", "BestXpPerMinute", "Smartest"}

U64(top, low) == [top |-> top, low |-> low]
U64Less(a, b) == a.top < b.top \/ (a.top = b.top /\ a.low < b.low)

\* -(gold as i64) as <<class, value>>, ordered class first: the cast maps
\* 2^63 + low to low - 2^63, whose negation 2^63 - low lies above every
\* negated small value; 2^63 itself maps to i64::MIN, whose negation wraps to
\* i64::MIN where it does not panic
NegAsI64(gold) ==
    IF gold.top = 0 THEN <<1, -gold.low>>
    ELSE IF gold.low > 0 THEN <<2, -gold.low>>
    ELSE <<0, 0>>

NegOverflows(gold) == gold.top = 1 /\ gold.low = 0

PairLess(a, b) == a[1] < b[1] \/ (a[1] = b[1] /\ a[2] < b[2])

\* the key of the Shortest sort: (mushrooms, minutes, -(gold as i64))
ShortestKeyLess(a, b) ==
    \/ a.mushrooms < b.mushrooms
    \/ /\ a.mushrooms = b.mushrooms
       /\ \/ a.minutes < b.minutes
          \/ a.minutes = b.minutes /\ PairLess(NegAsI64(a.gold), NegAsI64(b.gold))

\* rate: (value as i128 * 1_000_000 / minutes) as i64, written <<0, quotient>>,
\* and i64::MAX written <<1, 0>>.  The cast keeps the low 64 bits; for minutes
\* that divide 500_000 the share of the top bit, 2^63 * 1_000_000 / minutes, is
\* a multiple of 2^64, so that the low 64 bits are low * 1_000_000 / minutes
rate(value, minutes) ==
    IF minutes = 0 THEN <<1, 0>> ELSE <<0, (value.low * 1000000) \div minutes>>

\* a sorts before b under the comparator of the strategy
Before(a, b, strat) ==
    CASE strat = "Shortest" -> ShortestKeyLess(a, b)
      [] strat = "MostGold" -> U64Less(b.gold, a.gold)
      [] strat = "BestGoldPerMinute" ->
            PairLess(rate(b.gold, b.minutes), rate(a.gold, a.minutes))
      [] strat = "BestXpPerMinute" ->
            PairLess(rate(b.xp, b.minutes), rate(a.xp, a.minutes))

\* Vec::sort_by and sort_by_key are stable: an item goes behind the items that
\* do not sort after it
RECURSIVE InsertSorted(_, _, _)
InsertSorted(sorted, q, strat) ==
    IF sorted = <<>> THEN <<q>>
    ELSE IF Before(q, Head(sorted), strat) THEN <<q>> \o sorted
    ELSE <<Head(sorted)>> \o InsertSorted(Tail(sorted), q, strat)

RECURSIVE SortedBy(_, _)
SortedBy(items, strat) ==
    IF items = <<>> THEN <<>>
    ELSE InsertSorted(SortedBy(SubSeq(items, 1, Len(items) - 1), strat),
                      items[Len(items)], strat)


Fin(n, d) == LET g == Gcd(n, d) IN [k |-> "fin", n |-> n \div g, d |-> d \div g]
Inf == [k |-> "inf"]
NaN == [k |-> "nan"]
Zero == Fin(0, 1)

\* a > b on f64: false when either is NaN
FGt(a, b) ==
    /\ a.k # "nan" /\ b.k # "nan"
    /\ IF a.k = "inf" THEN b.k = "fin"
       ELSE b.k = "fin" /\ a.n * b.d > b.n * a.d

\* f64::max
FMax(a, b) == IF a.k = "nan" THEN b ELSE IF b.k = "nan" THEN a
              ELSE IF FGt(b, a) THEN b ELSE a

\* a / b for a >= 0 and b > 0
FDiv(a, b) ==
    IF a.k = "nan" \/ b.k = "nan" THEN NaN
    ELSE IF a.k = "inf" THEN (IF b.k = "inf" THEN NaN ELSE Inf)
    ELSE IF b.k = "inf" THEN Zero
    ELSE Fin(a.n * b.d, a.d * b.n)

\* a + c * b for a constant fraction c = cn / cd, cn of either sign
FAddScaled(a, cn, cd, b) ==
    IF a.k = "nan" \/ b.k = "nan" THEN NaN
    ELSE IF a.k = "inf" \/ b.k = "inf" THEN Inf
    ELSE LET n == a.n * cd * b.d + cn * b.n * a.d
             d == a.d * cd * b.d
             g == Gcd(IF n < 0 THEN -n ELSE n, d)
         IN  [k |-> "fin", n |-> n \div g, d |-> d \div g]

gpm(q) == IF q.minutes = 0 THEN Inf ELSE Fin(q.gold.low, q.minutes)
xpm(q) == IF q.minutes = 0 THEN Inf ELSE Fin(q.xp.low, q.minutes)

RECURSIVE MaxGpm(_, _)
MaxGpm(items, acc) ==
    IF items = <<>> THEN acc ELSE MaxGpm(Tail(items), FMax(acc, gpm(Head(items))))

RECURSIVE MaxXpm(_, _)
MaxXpm(items, acc) ==
    IF items = <<>> THEN acc ELSE MaxXpm(Tail(items), FMax(acc, xpm(Head(items))))

\* 0.4*g + 0.4*x + 0.2*speed - mush_penalty
SmartestScore(q, max_gpm, max_xpm) ==
    LET g == IF FGt(max_gpm, Zero) THEN FDiv(gpm(q), max_gpm) ELSE Zero
        x == IF FGt(max_xpm, Zero) THEN FDiv(xpm(q), max_xpm) ELSE Zero
        speed == Fin(1, IF q.minutes > 1 THEN q.minutes ELSE 1)
        mush_penalty == IF q.mushrooms > 0 THEN Fin(3, 20) ELSE Zero
    IN  FAddScaled(FAddScaled(FAddScaled(FAddScaled(Zero, 2, 5, g), 2, 5, x),
                              1, 5, speed), -1, 1, mush_penalty)

\* the loop over items: best is None or Some(<<score, q>>)
RECURSIVE SmartestBest(_, _, _, _)
SmartestBest(items, best, max_gpm, max_xpm) ==
    IF items = <<>> THEN best
    ELSE LET q == Head(items)
             score == SmartestScore(q, max_gpm, max_xpm)
         IN  SmartestBest(Tail(items),
                          IF IsNone(best) \/ FGt(score, best[1][1])
                          THEN Some(<<score, q>>) ELSE best,
                          max_gpm, max_xpm)

retain_free(items) == SelectSeq(items, LAMBDA q : q.mushrooms = 0)

\* a picker that ranks the candidates that cost mushrooms with the others
pick_mission_keeps_paid(items, strat) ==
    LET free == items
    IN  IF strat = "Smartest"
        THEN LET best == SmartestBest(free, None, MaxGpm(free, Zero), MaxXpm(free, Zero))
             IN  IF IsSome(best) THEN Some(best[1][2]) ELSE None
        ELSE LET sorted == SortedBy(free, strat)
             IN  IF sorted = <<>> THEN None ELSE Some(Head(sorted))

\* pick_mission: the returned Option<T>
pick_mission(items, strat) ==
    LET free == retain_free(items)
    IN  IF strat = "Smartest"
        THEN LET best == SmartestBest(free, None, MaxGpm(free, Zero), MaxXpm(free, Zero))
             IN  IF IsSome(best) THEN Some(best[1][2]) ELSE None
        ELSE LET sorted == SortedBy(free, strat)
             IN  IF sorted = <<>> THEN None ELSE Some(Head(sorted))

\* the Shortest key negates i64::MIN: a panic where overflow checks are on
pick_mission_panics(items, strat, overflow_checks) ==
    /\ overflow_checks
    /\ strat = "Shortest"
    /\ Len(retain_free(items)) >= 2
    /\ \E i \in DOMAIN items : items[i].mushrooms = 0 /\ NegOverflows(items[i].gold)

\* candidates: (mushrooms, minutes, gold, xp); the id is the place in the list
MaxItems == 3
HighGold == U64(1, 1)
SignBitGold == U64(1, 0)

Shape(mushrooms, minutes, gold, xp) ==
    [mushrooms |-> mushrooms, minutes |-> minutes, gold |-> gold, xp |-> U64(0, xp)]

SmallShapes ==
    {Shape(0, 10, U64(0, 10), 4), Shape(0, 5, U64(0, 5), 8), Shape(0, 5, U64(0, 10), 4),
     Shape(0, 0, U64(0, 0), 0), Shape(1, 5, U64(0, 10), 8), Shape(2, 1, U64(0, 10), 8)}

HighShapes == {Shape(0, 5, HighGold, 4), Shape(0, 5, SignBitGold, 4)}

\* gold beyond the sign bit goes to the strategies that compare integers
ShapesFor(strat) ==
    IF strat = "Smartest" THEN SmallShapes ELSE SmallShapes \cup HighShapes

WithIds(shapes) ==
    [i \in DOMAIN shapes |->
        [id |-> i, minutes |-> shapes[i].minutes, gold |-> shapes[i].gold,
         xp |-> shapes[i].xp, mushrooms |-> shapes[i].mushrooms]]

MissionLists(strat) ==
    UNION {{WithIds(l) : l \in [1..n -> ShapesFor(strat)]} : n \in 0..MaxItems}

InitMissions ==
    /\ status = LoggingIn
    /\ holders = <<>>
    /\ polled = 0
    /\ automation_queue = <<>>
    /\ cfg = None
    /\ now = NowValue
    /\ last = NoLast
    /\ ticks = NoTicks
    /\ checker = CheckerStart
    /\ \E strat \in Strategies, checks \in BOOLEAN :
        \E items \in MissionLists(strat) :
            pick = [NoPick EXCEPT !.items = items, !.strat = strat,
                                  !.overflow_checks = checks]
    /\ spent = NoSpend

PickMission ==
    /\ ~pick.called
    /\ pick' = IF pick_mission_panics(pick.items, pick.strat, pick.overflow_checks)
               THEN [pick EXCEPT !.called = TRUE, !.panicked = TRUE]
               ELSE [pick EXCEPT !.called = TRUE,
                                 !.res = pick_mission(pick.items, pick.strat)]
    /\ UNCHANGED <<status, holders, polled, automation_queue, cfg, now, last,
                   ticks, checker, spent>>

NextMissions == PickMission

SpecMissions == InitMissions /\ [][NextMissions]_vars

(***************************************************************************)
(* Ticks and their responses on an account that owns mushrooms, with each  *)
(* of the three budgets 0 or 1: a thirsty tavern or running guard duty,    *)
(* dungeons and pet exploration ready or on their timers.                  *)
(***************************************************************************)
BudgetPets ==
    [GuardPets EXCEPT !.opponent.next_free_battle = Some(Later)]

BudgetSnapshots ==
    { [BaseSnapshot EXCEPT
            !.tavern.current_action = action,
            !.tavern.thirst_for_adventure_sec = 100,
            !.dungeons.next_free_fight = fight.next,
            !.dungeons.light = fight.light,
            !.dungeons.tower = fight.tower,
            !.character.mushrooms = mushrooms,
            !.pets = pets] :
        action \in {[kind |-> "Idle", busy_until |-> Past],
                    [kind |-> "CityGuard", busy_until |-> Soon]},
        fight \in {[next |-> Some(Later), light |-> <<None, Some(1)>>, tower |-> None],
                   [next |-> Some(Later), light |-> <<None, None>>, tower |-> Some(3)],
                   [next |-> Some(Past), light |-> <<Some(4), Some(2)>>, tower |-> None]},
        mushrooms \in {0, 5},
        pets \in {None, Some(BudgetPets)} }

BudgetCfgs ==
    { [BaseCfg EXCEPT
            !.auto_pets = TRUE,
            !.auto_buy_beer_mushrooms = TRUE,
            !.max_mushrooms_beer = beer,
            !.max_mushrooms_dungeon_skip = dungeon_skip,
            !.max_mushrooms_pet_skip = pet_skip] :
        beer \in {0, 1}, dungeon_skip \in {0, 1}, pet_skip \in {0, 1} }

InitBudget ==
    /\ \E gs \in BudgetSnapshots : status = Idle(TheSession, gs)
    /\ holders = <<>>
    /\ polled = 0
    /\ automation_queue = <<>>
    /\ \E c \in BudgetCfgs : cfg = Some(c)
    /\ now = NowValue
    /\ last = NoLast
    /\ ticks = OneTick
    /\ checker = CheckerStart
    /\ pick = NoPick
    /\ spent = NoSpend

BudgetSendCompletes ==
    SendCompletesWith(BudgetSnapshots, CHOOSE gs \in BudgetSnapshots : TRUE)

NextBudget ==
    \/ RunAutomationTick
    \/ BudgetSendCompletes
    \/ PlayerPolled
    \/ AutoMissionsCheck

SpecBudget == InitBudget /\ [][NextBudget]_vars

(***************************************************************************)
(* One tick on an Idle account over the side actions: the dungeon timer,   *)
(* the tower, light and shadow dungeons with equal and unequal progress,   *)
(* the pet PvP and exploration timers, habitats fought or not and          *)
(* exploring or not, and the guild, under a running quest, a waiting       *)
(* expedition, a running guard duty and the idle tavern.                   *)
(***************************************************************************)
SideActionsOf ==
    {[kind |-> "Quest", busy_until |-> Later],
     [kind |-> "Expedition", busy_until |-> Past],
     [kind |-> "CityGuard", busy_until |-> Soon],
     [kind |-> "Idle", busy_until |-> Past]}

SideDungeons ==
    {[next |-> Some(Past), tower |-> None, light |-> <<Some(4), Some(2)>>, shadow |-> <<None>>],
     [next |-> Some(Later), tower |-> None, light |-> <<None, Some(2)>>, shadow |-> <<Some(2)>>],
     [next |-> Some(Past), tower |-> Some(3), light |-> <<Some(1), None>>, shadow |-> <<None>>],
     [next |-> Some(Later), tower |-> None, light |-> <<None, None>>, shadow |-> <<None>>],
     [next |-> Some(Past), tower |-> None, light |-> <<Some(4), None>>, shadow |-> <<Some(1)>>],
     [next |-> None, tower |-> None, light |-> <<Some(2), Some(2)>>, shadow |-> <<Some(3)>>]}

\* both habitats fought and exploring, the second with the stronger pet
ExploringHabitats ==
    << [battled_opponent |-> TRUE, pets |-> << [id |-> 1, level |-> 5] >>,
        exploration |-> Some(2)],
       [battled_opponent |-> TRUE,
        pets |-> << [id |-> 2, level |-> 9], [id |-> 3, level |-> 4] >>,
        exploration |-> Some(0)] >>

SideHabitats ==
    {GuardPets.habitats,
     ExploringHabitats,
     [ExploringHabitats EXCEPT ![1].pets = << [id |-> 1, level |-> 9] >>],
     [ExploringHabitats EXCEPT ![2].battled_opponent = FALSE, ![2].pets = <<>>]}

SidePets ==
    { [GuardPets EXCEPT !.opponent.next_free_battle = battle,
                        !.next_free_exploration = exploration,
                        !.habitats = habitats] :
        battle \in {Some(Past), Some(Later)},
        exploration \in {Some(Past), Some(Later)},
        habitats \in SideHabitats }

SideSnapshots ==
    { [BaseSnapshot EXCEPT
            !.tavern.current_action = action,
            !.tavern.expedition =
                IF action.kind = "Expedition" THEN Some(WaitingExpedition) ELSE None,
            !.dungeons.portal = portal,
            !.dungeons.next_free_fight = fight.next,
            !.dungeons.tower = fight.tower,
            !.dungeons.light = fight.light,
            !.dungeons.shadow = fight.shadow,
            !.character.mushrooms = 5,
            !.pets = pets,
            !.guild = guild] :
        action \in SideActionsOf,
        portal \in {None, Some(TRUE)},
        fight \in SideDungeons,
        pets \in {None} \cup {Some(p) : p \in SidePets},
        guild \in {None, Some(GuardGuild)} }

SideCfgs ==
    { [BaseCfg EXCEPT
            !.auto_expeditions = FALSE,
            !.auto_dungeons = dungeons, !.auto_pets = pets, !.auto_guild = guild,
            !.auto_guild_accept_defense = defense,
            !.auto_guild_accept_attack = FALSE,
            !.max_mushrooms_dungeon_skip = skip,
            !.max_mushrooms_pet_skip = skip] :
        dungeons \in BOOLEAN, pets \in BOOLEAN, guild \in BOOLEAN,
        defense \in BOOLEAN, skip \in {0, 1} }

InitSide ==
    /\ \E gs \in SideSnapshots : status = Idle(TheSession, gs)
    /\ holders = <<>>
    /\ polled = 0
    /\ automation_queue = <<>>
    /\ \E c \in SideCfgs : cfg = Some(c)
    /\ now = NowValue
    /\ last = NoLast
    /\ ticks = OneTick
    /\ checker = CheckerStart
    /\ pick = NoPick
    /\ spent = NoSpend

NextSide == RunAutomationTick

SpecSide == InitSide /\ [][NextSide]_vars

(***************************************************************************)
(* One tick on an Idle account whose expedition is under way, at each      *)
(* stage: the boss, rewards in every order, encounters, a wait that is     *)
(* over, at the skip threshold and beyond it, and a finished or unknown    *)
(* stage, with and without a glass and a portal to fight.                  *)
(***************************************************************************)
MaxRewards == 3

RewardKinds == {"Mushrooms", "Gold", "Silver", "Egg", "Wood"}

RewardLists == UNION {[1..n -> RewardKinds] : n \in 0..MaxRewards}

ExpeditionStages ==
    {[WaitingExpedition EXCEPT !.stage = "Boss"],
     [WaitingExpedition EXCEPT !.stage = "Finished"],
     [WaitingExpedition EXCEPT !.stage = "Unknown"]}
    \cup {[WaitingExpedition EXCEPT !.stage = "Rewards", !.rewards = r] : r \in RewardLists}
    \cup {[WaitingExpedition EXCEPT !.stage = "Encounters", !.encounters = n] : n \in {0, 2}}
    \cup {[WaitingExpedition EXCEPT !.until = t] :
            t \in {Past, NowValue, OnThreshold, OverThreshold}}

StageSnapshots ==
    { [BaseSnapshot EXCEPT
            !.tavern.current_action = [kind |-> "Expedition", busy_until |-> Past],
            !.tavern.expedition = expedition,
            !.tavern.quicksand_glasses = glasses,
            !.dungeons.portal = portal] :
        expedition \in {None} \cup {Some(e) : e \in ExpeditionStages},
        glasses \in {0, 1},
        portal \in {None, Some(TRUE)} }

StageCfgs ==
    { [BaseCfg EXCEPT
            !.auto_expeditions = expeditions,
            !.use_glasses_for_expeditions = glass,
            !.expedition_reward_priority = prio] :
        expeditions \in BOOLEAN, glass \in BOOLEAN,
        prio \in {"MushroomsGoldEggs", "GoldMushroomsEggs", "EggsMushroomsGold"} }

InitExpedition ==
    /\ \E gs \in StageSnapshots : status = Idle(TheSession, gs)
    /\ holders = <<>>
    /\ polled = 0
    /\ automation_queue = <<>>
    /\ \E c \in StageCfgs : cfg = Some(c)
    /\ now = NowValue
    /\ last = NoLast
    /\ ticks = OneTick
    /\ checker = CheckerStart
    /\ pick = NoPick
    /\ spent = NoSpend

NextExpedition == RunAutomationTick

SpecExpedition == InitExpedition /\ [][NextExpedition]_vars

(***************************************************************************)
(* One tick on an Idle account with an idle tavern that offers quests:     *)
(* every list of up to MaxQuests quests of four kinds (two of the same     *)
(* length, a longer and a long one), the thirst at and between their       *)
(* lengths, each strategy, and beer enabled or not, budgeted or not,       *)
(* affordable or not and with the daily cap reached or not.                *)
(***************************************************************************)
MaxQuests == 3

QuestKinds ==
    {[base_length |-> 300, base_silver |-> 5, base_experience |-> 7],
     [base_length |-> 300, base_silver |-> 20, base_experience |-> 9],
     [base_length |-> 600, base_silver |-> 20, base_experience |-> 9],
     [base_length |-> 1200, base_silver |-> 100, base_experience |-> 5]}

QuestLists == UNION {[1..n -> QuestKinds] : n \in 1..MaxQuests}

OfferSnapshots ==
    { [BaseSnapshot EXCEPT
            !.tavern.quests = quests,
            !.tavern.thirst_for_adventure_sec = thirst,
            !.tavern.beer_drunk = beer.drunk,
            !.character.mushrooms = beer.mushrooms] :
        quests \in QuestLists,
        thirst \in {0, 300, 600, 1500},
        beer \in {[drunk |-> 0, mushrooms |-> 0], [drunk |-> 0, mushrooms |-> 5],
                  [drunk |-> BaseBeerCap, mushrooms |-> 5]} }

OfferCfgs ==
    { [BaseCfg EXCEPT
            !.mission_strategy = strat,
            !.auto_buy_beer_mushrooms = beer.buy, !.max_mushrooms_beer = beer.budget] :
        strat \in Strategies,
        beer \in {[buy |-> FALSE, budget |-> 0], [buy |-> TRUE, budget |-> 0],
                  [buy |-> TRUE, budget |-> 1]} }

InitQuest ==
    /\ \E gs \in OfferSnapshots : status = Idle(TheSession, gs)
    /\ holders = <<>>
    /\ polled = 0
    /\ automation_queue = <<>>
    /\ \E c \in OfferCfgs : cfg = Some(c)
    /\ now = NowValue
    /\ last = NoLast
    /\ ticks = OneTick
    /\ checker = CheckerStart
    /\ pick = NoPick
    /\ spent = NoSpend

NextQuest == RunAutomationTick

SpecQuest == InitQuest /\ [][NextQuest]_vars

(***************************************************************************)
(* The Run now button of the automation view (ui/automation.rs).  The view *)
(* shows the button while the status is Idle or Busy and the account has a *)
(* stored config; a press emits RunAutomationTick at once, whatever is     *)
(* already on its way.  The messages are counted up to MaxTicks.           *)
(***************************************************************************)
MaxTicks == 3

RunNow ==
    /\ status.tag \in {"Idle", "Busy"}
    /\ IsSome(cfg)
    /\ Pending < MaxTicks
    /\ ticks' = [ticks EXCEPT !.pressed = @ + 1]
    /\ UNCHANGED <<status, holders, polled, automation_queue, cfg, now, last, checker,
                   pick, spent>>

(***************************************************************************)
(* An account that stays Busy, with the poll or a tick's command in        *)
(* flight, no tick on its way and a stored config: the button is pressed   *)
(* and the ticks are handled, in any order.  The only futures that deliver *)
(* a tick here are the re-runs the tick handler schedules.                 *)
(***************************************************************************)
BusyHolders ==
    {[reason |-> "Auto Poll", holder |-> Holder("AutoPoll", TheSession, Update)],
     [reason |-> "Automation", holder |-> Holder("TickSend", TheSession, Update)]}

InitTicks ==
    /\ \E gs \in ProtoSnapshots, b \in BusyHolders :
            /\ status = Busy(gs, b.reason)
            /\ holders = <<b.holder>>
    /\ polled = 0
    /\ automation_queue = <<>>
    /\ cfg \in {Some(BaseCfg), Some(AllOffCfg)}
    /\ now = NowValue
    /\ last = NoLast
    /\ ticks = NoTicks
    /\ checker = CheckerStart
    /\ pick = NoPick
    /\ spent = NoSpend

NextTicks ==
    \/ RunNow
    \/ RunAutomationTick

SpecTicks == InitTicks /\ [][NextTicks]_vars

(***************************************************************************)
(* Properties.                                                             *)
(***************************************************************************)

\* the number of places that own the Session: the Idle status and the holders
HandlePlaces == (IF status.tag = "Idle" THEN 1 ELSE 0) + Len(holders)

\* the latest handler was a tick that found the status st_tag
TickOn(st_tag) == last.act = "RunAutomationTick" /\ last.pre.tag = st_tag

\* C1: the session handle is never in two places, and it is in no place only
\* before the login has produced it or once the status is FatalError: it is
\* never lost while the account stays LoggingInAgain, Idle or Busy.
C1_HandleNeverLost ==
    /\ HandlePlaces <= 1
    /\ HandlePlaces = 0 => status.tag \in {"LoggingIn", "FatalError"}

\* C2: at most one send is in flight for the account, and a take_session
\* attempted while a send is in flight returns None and its caller sends nothing.
C2_OneSendInFlight ==
    /\ SendsInFlight(holders) <= 1
    /\ IsSome(last.take) /\ last.take[1].in_flight > 0 =>
            IsNone(last.take[1].res) /\ last.sent = <<>> /\ status = last.pre

C2_SecondTakeRefused ==
    /\ IsSome(last.take)
    /\ last.take[1].in_flight = 1
    /\ IsNone(last.take[1].res)
    /\ SendsInFlight(holders) = 1

\* C3: take_session(reason) on Idle(handle, snapshot) returns that handle and
\* leaves Busy(snapshot, reason); on LoggingIn, Busy, LoggingInAgain or
\* FatalError it returns None and leaves the status as it was.
C3_TakeSession ==
    IsSome(last.take) =>
        LET t == last.take[1]
        IN  IF t.pre.tag = "Idle"
            THEN t.res = Some(t.pre.session) /\ t.post = Busy(t.pre.gs, t.reason)
            ELSE /\ t.pre.tag \in {"LoggingIn", "Busy", "LoggingInAgain", "FatalError"}
                 /\ t.res = None
                 /\ t.post = t.pre

C3_TakenFromIdle ==
    /\ IsSome(last.take)
    /\ last.take[1].pre.tag = "Idle"
    /\ status = Busy(last.take[1].pre.gs, last.take[1].reason)

\* C4: put_session(handle) on Busy(snapshot, _) leaves Idle(handle, snapshot);
\* on any other status it leaves the status as it was, so the handle passed in
\* is not in the status afterwards unless it already was.
C4_PutSession ==
    IsSome(last.put) =>
        LET p == last.put[1]
        IN  IF p.pre.tag = "Busy"
            THEN p.post = Idle(p.session, p.pre.gs)
            ELSE p.post = p.pre

C4_PutIntoBusy ==
    /\ IsSome(last.put)
    /\ last.put[1].pre.tag = "Busy"
    /\ status = Idle(last.put[1].session, last.put[1].pre.gs)

\* C5: automation_queue never holds more than one primary-class command,
\* whatever ticks and drains happen while the account is busy.
C5_OnePrimaryQueued ==
    Len(SelectSeq(automation_queue, is_primary)) <= 1

C5_TickWhileBusy ==
    /\ TickOn("Busy")
    /\ IsSome(cfg) /\ AnyEnabled(cfg[1])
    /\ is_primary(ChosenCmd(last.pre.gs, cfg[1], now))

\* C6: a tick handled while the handle is busy, whose snapshot and config
\* decide a side command, appends that command to automation_queue (also when
\* the same side command was decided by the tick before).
C6_BusySideDecisionQueued ==
    (/\ TickOn("Busy")
     /\ IsSome(cfg) /\ AnyEnabled(cfg[1])
     /\ ~is_primary(ChosenCmd(last.pre.gs, cfg[1], now))
     /\ ChosenCmd(last.pre.gs, cfg[1], now) # Update)
        => /\ automation_queue # <<>>
           /\ automation_queue[Len(automation_queue)] = ChosenCmd(last.pre.gs, cfg[1], now)

\* C8: a handled tick sends at most one command: none when the account is not
\* Idle, otherwise exactly the command the decision chooses for the snapshot
\* and the config.
C8_TickSendsDecision ==
    last.act = "RunAutomationTick" =>
        /\ Len(last.sent) <= 1
        /\ last.pre.tag # "Idle" => last.sent = <<>>
        /\ last.pre.tag = "Idle" /\ IsSome(cfg) =>
                last.sent = <<ChosenCmd(last.pre.gs, cfg[1], now)>>

\* the tick found an Idle account on guard duty
GuardTick == TickOn("Idle") /\ last.pre.gs.tavern.current_action.kind = "CityGuard"

\* C9: when the guard duty has ended, the command of the tick is FinishWork,
\* for every snapshot and every config with a subsystem enabled.
C9_FinishedGuardCollects ==
    GuardTick /\ last.pre.gs.tavern.current_action.busy_until <= now
        => last.sent = <<FinishWork>>

TavernStartingCmds ==
    {"StartQuest", "ExpeditionStart", "SetQuestsInsteadOfExpeditions", "BuyBeer", "StartWork"}

SideCmds ==
    {"FightPortal", "FightTower", "FightDungeon", "FightPetOpponent", "FightPetDungeon",
     "GuildJoinDefense", "GuildJoinAttack", "GuildPetBattle"}

\* C10: while the guard duty is still running, the tick sends exactly one
\* command, a dungeon, pet or guild command or the Update poll, and never a
\* tavern-starting command.
C10_RunningGuardStartsNothing ==
    GuardTick /\ last.pre.gs.tavern.current_action.busy_until > now
        => /\ Len(last.sent) = 1
           /\ last.sent[1].c \notin TavernStartingCmds
           /\ last.sent[1].c \in SideCmds \cup {"Update"}

\* a running duty, the tavern enabled and thirst left for the quests on
\* offer, and no side action available: the tick polls
C10_RunningGuardPolls ==
    /\ GuardTick
    /\ last.pre.gs.tavern.current_action.busy_until > now
    /\ cfg[1].auto_tavern
    /\ last.pre.gs.tavern.thirst_for_adventure_sec > 0
    /\ last.sent = <<Update>>

QuestTick == TickOn("Idle") /\ last.pre.gs.tavern.current_action.kind = "Quest"

\* C11: on a running quest the tick sends FinishQuest without a skip when the
\* quest's end is not after now; FinishQuest with a glass when more than 60
\* seconds remain, glass skipping is enabled for the tavern and a glass is
\* owned; and otherwise no tavern command, the command being a side action
\* or the Update poll.
C11_QuestFinishOrSkip ==
    QuestTick =>
        LET end == last.pre.gs.tavern.current_action.busy_until
            glasses == last.pre.gs.tavern.quicksand_glasses
        IN  /\ Len(last.sent) = 1
            /\ IF end <= now
               THEN last.sent[1] = FinishQuest("None")
               ELSE IF end - now > 60 /\ cfg[1].use_glasses_for_tavern /\ glasses >= 1
                    THEN last.sent[1] = FinishQuest("Glass")
                    ELSE last.sent[1].c \in SideCmds \cup {"Update"}

\* a glass is owned and enabled but exactly 60 seconds remain: no skip
C11_NoSkipAtSixtySeconds ==
    /\ QuestTick
    /\ last.pre.gs.tavern.current_action.busy_until = now + 60
    /\ cfg[1].use_glasses_for_tavern
    /\ last.pre.gs.tavern.quicksand_glasses >= 1
    /\ last.sent = <<Update>>

IdleTick == TickOn("Idle") /\ last.pre.gs.tavern.current_action.kind = "Idle"

\* the dungeon and pet evaluation of the idle branch found no command
NoDungeonOrPetCmd ==
    CmdIsNone(PetsStep(DungeonsStep(NoCmd, last.pre.gs, cfg[1], now),
                       last.pre.gs, cfg[1], now))

\* C12: tavern idle, no thirst left, a beer budget of 0, the tavern enabled
\* and no dungeon or pet command available: the tick sends StartWork for one
\* hour.
C12_NoThirstNoBeerStartsWork ==
    /\ IdleTick
    /\ last.pre.gs.tavern.thirst_for_adventure_sec = 0
    /\ cfg[1].max_mushrooms_beer = 0
    /\ cfg[1].auto_tavern
    /\ NoDungeonOrPetCmd
    => last.sent = <<[c |-> "StartWork", hours |-> 1]>>

\* the case with beer buying switched on, mushrooms owned and the daily cap
\* not reached: only the budget of 0 rules the beer out
C12_WorkStartedOnZeroBudget ==
    /\ IdleTick
    /\ last.pre.gs.tavern.thirst_for_adventure_sec = 0
    /\ cfg[1].max_mushrooms_beer = 0
    /\ cfg[1].auto_buy_beer_mushrooms
    /\ last.pre.gs.character.mushrooms > 0
    /\ last.pre.gs.tavern.beer_drunk = 0
    /\ cfg[1].auto_tavern
    /\ NoDungeonOrPetCmd
    /\ last.sent = <<StartWork(1)>>

\* C13 as stated: StartWork is sent only when the guild evaluation would
\* have produced no command.
C13_StartWorkOnlyWithoutGuildCmd ==
    TickOn("Idle") /\ last.sent # <<>> /\ last.sent[1].c = "StartWork"
        => CmdIsNone(GuildStep(NoCmd, last.pre.gs, cfg[1], now))

\* C13 amended: StartWork is sent only from the idle tavern and only when
\* the dungeon evaluation, the pet evaluation and the quest/expedition start
\* all produced no command; the guild evaluation comes after it.
C13_StartWorkAfterDungeonsPetsTavern ==
    TickOn("Idle") /\ last.sent # <<>> /\ last.sent[1].c = "StartWork"
        => /\ last.pre.gs.tavern.current_action.kind = "Idle"
           /\ NoDungeonOrPetCmd
           /\ CmdIsNone(TavernStart(last.pre.gs, cfg[1]))
           /\ last.sent = <<StartWork(1)>>

\* StartWork sent although the guild evaluation had a command to give
C13_StartWorkBeforeGuildCmd ==
    /\ IdleTick
    /\ last.sent = <<StartWork(1)>>
    /\ ~CmdIsNone(GuildStep(NoCmd, last.pre.gs, cfg[1], now))

\* the tavern branch of the tick found nothing to send: the tavern idle, a
\* running quest that is not skipped, an expedition with nothing to do, or a
\* guard duty still running
TavernYieldsNothing ==
    LET gs == last.pre.gs
        kind == gs.tavern.current_action.kind
        end == gs.tavern.current_action.busy_until
    IN  \/ kind = "Idle"
        \/ /\ kind = "Quest"
           /\ end > now
           /\ ~(end - now > 60 /\ cfg[1].use_glasses_for_tavern
                    /\ gs.tavern.quicksand_glasses > 0)
        \/ kind = "Expedition" /\ CmdIsNone(ExpeditionBranch(gs, cfg[1], now))
        \/ kind = "CityGuard" /\ end > now

PortalOpen ==
    /\ cfg[1].auto_dungeons
    /\ last.pre.gs.dungeons.portal = Some(TRUE)

\* C14: whenever the tavern branch yields no command, the dungeons are
\* enabled and the portal can be fought, the tick sends FightPortal, whatever
\* the dungeon fight timer and the dungeon progress are.
C14_PortalFightFirst ==
    TickOn("Idle") /\ TavernYieldsNothing /\ PortalOpen
        => last.sent = <<FightPortal>>

\* the portal fought during a running quest while the dungeon fight timer
\* has not elapsed and no dungeon is open
C14_PortalFoughtBeforeTimer ==
    /\ TickOn("Idle") /\ TavernYieldsNothing /\ PortalOpen
    /\ last.pre.gs.tavern.current_action.kind = "Quest"
    /\ last.pre.gs.dungeons.next_free_fight = Some(Later)
    /\ last.pre.gs.dungeons.light = <<None, None>>
    /\ last.sent = <<FightPortal>>

\* C15: with every automation toggle of the stored config disabled and the
\* account Idle, the tick sends the Update poll and nothing else.
C15_AllDisabledPolls ==
    TickOn("Idle") /\ IsSome(cfg) /\ ~AnyEnabled(cfg[1])
        => last.sent = <<Update>>

ReloginActs ==
    {"PlayerCommandFailed", "ReloginCompletes", "PlayerRelogSuccess", "PlayerRelogDelay"}

ReloginSucceeded == \E i \in DOMAIN holders : holders[i].kind = "PlayerRelogSuccess"

\* C17: a failed login attempt of the re-login is followed by another
\* attempt with the attempt number raised by one, and the status stays
\* LoggingInAgain: it becomes Busy, with the snapshot of the login, only when
\* an attempt succeeds, and never FatalError; and once an attempt has
\* succeeded the account is eventually Idle.
C17_ReloginRetriesUntilIdle ==
    /\ [][\A i \in DOMAIN holders :
            /\ holders[i].kind = "Relogin"
            /\ i \in DOMAIN holders'
            /\ holders'[i].kind = "CommandFailed"
            => holders'[i].info = holders[i].info + 1 /\ status' = status]_vars
    /\ [][status = LoggingInAgain /\ status' # status
            => /\ ReloginSucceeded
               /\ \E i \in DOMAIN holders :
                    /\ holders[i].kind = "PlayerRelogSuccess"
                    /\ status' = Busy(holders[i].info, "Waiting")]_vars
    /\ (ReloginSucceeded ~> status.tag = "Idle")

\* the grace delay of a re-login has ended and the account is Idle with the
\* login's snapshot and the session
C17_ReloginEndedIdle ==
    /\ last.act = "PlayerRelogDelay"
    /\ last.pre.tag = "Busy" /\ last.pre.reason = "Waiting"
    /\ status = Idle(TheSession, last.pre.gs)
    /\ holders = <<>>

\* the handlers that apply a response to the snapshot
ResponseActs == {"SendCompletes", "PlayerFightResult"}

\* C18: a response that cannot be applied is handled like a failed send by
\* every handler that applies a response: a handler that found the account
\* Busy leaves the failure to PlayerCommandFailed and the re-login, and never
\* leaves the status FatalError.
C18_UpdateFailureRelogs ==
    last.act \in ResponseActs /\ last.pre.tag = "Busy"
        => status.tag # "FatalError"

\* an error of the core has just been met: a PlayerCommandFailed message is
\* under way (a send failed, a response could not be applied, or a login
\* attempt of the re-login failed), a response handler found the status no
\* longer Busy, or one left it FatalError
CommandFailedPending == \E i \in DOMAIN holders : holders[i].kind = "CommandFailed"

ErrorMet ==
    \/ CommandFailedPending
    \/ last.act \in ResponseActs /\ (last.pre.tag # "Busy" \/ status = FatalError)

C20_FatalErrorStays ==
    [][status = FatalError => status' = FatalError]_vars

\* an auto-poll ran on the FatalError status: take_session refused and the
\* status is still FatalError
C20_PollOnFatalError ==
    /\ last.act = "AutoPollCheck"
    /\ last.pre = FatalError
    /\ last.take = Some(TakeRec(FatalError, "Auto Poll",
                                [status |-> FatalError, res |-> None], <<>>))
    /\ status = FatalError

\* the latest step was a check of the AutoMissionsChecker that scheduled a tick
CheckedOn(st_tag) == last.act = "AutoMissionsCheck" /\ last.pre.tag = st_tag

NotIdleTags == {"LoggingIn", "Busy", "FatalError", "LoggingInAgain"}

KnownTimers(gs) ==
    (IF gs.tavern.current_action.kind = "Quest"
     THEN {gs.tavern.current_action.busy_until} ELSE {})
    \cup (IF /\ gs.tavern.current_action.kind = "Expedition"
             /\ IsSome(gs.tavern.expedition)
             /\ gs.tavern.expedition[1].stage = "Waiting"
          THEN {gs.tavern.expedition[1].until} ELSE {})
    \cup (IF IsSome(gs.pets)
          THEN {t[1] : t \in {u \in {gs.pets[1].opponent.next_free_battle,
                                     gs.pets[1].next_free_exploration} : IsSome(u)}}
          ELSE {})
    \cup {t[1] : t \in {u \in {gs.dungeons.next_free_fight} : IsSome(u)}}
    \cup (IF IsSome(gs.guild)
          THEN {t[1] : t \in {u \in {gs.guild[1].hydra.next_battle} : IsSome(u)}}
          ELSE {})

\* a pet PvP, pet exploration or dungeon timer that the snapshot does not hold
AbsentFightTimer(gs) ==
    \/ IsSome(gs.pets) /\ IsNone(gs.pets[1].opponent.next_free_battle)
    \/ IsSome(gs.pets) /\ IsNone(gs.pets[1].next_free_exploration)
    \/ IsNone(gs.dungeons.next_free_fight)

Elapsed(gs) == {t \in KnownTimers(gs) : t <= NowValue}
Ahead(gs) == {t \in KnownTimers(gs) : t > NowValue}
Earliest(ts) == CHOOSE t \in ts : \A u \in ts : t <= u
MinMs(a, b) == IF a < b THEN a ELSE b

\* a check that found the account Idle at both of its reads and slept
IdleCheckSlept ==
    /\ last.act = "AutoMissionsCheck"
    /\ last.pre.tag = "Idle"
    /\ IsSome(last.wait)
    /\ IsSome(last.wait[1].jitter)

\* C22 as stated: on an Idle account the check sleeps the 400-1200 ms jitter
\* when a known timer has elapsed, and otherwise min(earliest future timer -
\* now, 120 s), before the post-wait jitter.
C22_WaitIsJitterOrEarliestTimer ==
    IdleCheckSlept =>
        LET gs == last.pre.gs
        IN  last.wait[1].sleep =
                IF Elapsed(gs) # {} THEN Range(400, 1200)
                ELSE IF Ahead(gs) # {}
                THEN LET ms == MinMs(1000 * (Earliest(Ahead(gs)) - NowValue), 120000)
                     IN  Range(ms, ms)
                ELSE last.wait[1].sleep

\* C22, amended: when both reads of a check that is not the first find the
\* account Idle, the sleep before the 300-1200 ms post-wait jitter is the
\* 400-1200 ms jitter if a known timer has elapsed or if the pet PvP, the pet
\* exploration or the dungeon timer is absent, and otherwise min(earliest
\* future timer - now, 120 s); so the tick comes no later than the earliest
\* ready time or the 1200 ms jitter, whichever is later, and no later than the
\* two-minute cap, plus the post-wait jitter.
C22_WaitIsJitterOrEarliestOrAbsent ==
    IdleCheckSlept =>
        LET gs == last.pre.gs
            sleep == last.wait[1].sleep
        IN  /\ last.wait[1].jitter = Some(Range(300, 1200))
            /\ tick_scheduled
            /\ sleep =
                  IF Elapsed(gs) # {} \/ AbsentFightTimer(gs) THEN Range(400, 1200)
                  ELSE LET ms == MinMs(1000 * (Earliest(Ahead(gs)) - NowValue), 120000)
                       IN  Range(ms, ms)
            /\ sleep.hi <= 120000
            /\ Ahead(gs) # {} =>
                  \/ sleep.hi <= 1000 * (Earliest(Ahead(gs)) - NowValue)
                  \/ sleep.hi <= 1200

\* a check that slept the two-minute cap: every timer it knows is further ahead
C22_CheckSleptTheCap ==
    /\ IdleCheckSlept
    /\ Elapsed(last.pre.gs) = {}
    /\ ~AbsentFightTimer(last.pre.gs)
    /\ last.pre.gs.tavern.current_action.kind = "Quest"
    /\ last.wait[1].sleep = Range(120000, 120000)


\* a check returns: the RunAutomationTick it sends is on its way
CheckReturns == ~tick_scheduled /\ tick_scheduled' /\ last'.act = "AutoMissionsCheck"

\* C23 as stated: when no subsystem timer is known at all (the first check, or
\* an Idle snapshot that holds no timer), the check backs off 30-60 s before
\* the next tick.
C23_NoTimerBacksOff ==
    [][CheckReturns /\ (\/ checker.first_tick
                        \/ status.tag = "Idle" /\ KnownTimers(status.gs) = {})
        => last'.wait[1].sleep = Range(30000, 60000)]_vars

\* C23, amended: when no subsystem timer is known at all the check does not
\* back off.  The first check sends the tick after 200-600 ms; a check of an
\* Idle snapshot that holds no timer takes the absent dungeon timer as due and
\* sends the tick after the 400-1200 ms jitter and the 300-1200 ms post-wait
\* jitter.  The 30-60 s backoff is slept only by a check that reads no
\* snapshot, because the account stopped being Idle between its two reads.
C23_NoTimerWakesSoon ==
    [][CheckReturns =>
        /\ checker.first_tick => last'.wait = Some(Delay(Range(200, 600), None))
        /\ ~checker.first_tick /\ status.tag = "Idle" /\ KnownTimers(status.gs) = {}
              => last'.wait = Some(Delay(Range(400, 1200), Some(Range(300, 1200))))
        /\ last'.wait[1].sleep = Range(30000, 60000)
              <=> ~checker.first_tick /\ checker.pc = "idle_seen" /\ status.tag # "Idle"]_vars

\* a check of an Idle snapshot without any timer has slept the jitter only
C23_CheckWithoutTimersSleptJitter ==
    /\ IdleCheckSlept
    /\ KnownTimers(last.pre.gs) = {}
    /\ last.wait = Some(Delay(DueJitterMs, Some(PostJitterMs)))


\* the candidates of the call that cost no mushrooms
FreeItems == {pick.items[i] : i \in {j \in DOMAIN pick.items : pick.items[j].mushrooms = 0}}

\* C24: whatever the strategy, pick_mission returns None when every candidate
\* costs mushrooms, and it never returns a candidate that costs mushrooms.
C24_NoPaidMissionPicked ==
    pick.called /\ ~pick.panicked =>
        /\ FreeItems = {} => pick.res = None
        /\ IsSome(pick.res) => pick.res[1] \in FreeItems

\* a list of two paid candidates went through the picker and gave None
C24_PaidListGaveNone ==
    /\ pick.called
    /\ Len(pick.items) = 2
    /\ FreeItems = {}
    /\ pick.strat = "Smartest"
    /\ pick.res = None

\* C25: under Shortest, pick_mission returns a free candidate whose duration
\* is at most that of every free candidate and whose gold is the highest among
\* the free candidates of that duration.
C25_ShortestThenMostGold ==
    pick.called /\ pick.strat = "Shortest" /\ FreeItems # {} =>
        /\ ~pick.panicked
        /\ IsSome(pick.res)
        /\ pick.res[1] \in FreeItems
        /\ \A q \in FreeItems :
            /\ pick.res[1].minutes <= q.minutes
            /\ q.minutes = pick.res[1].minutes => ~U64Less(pick.res[1].gold, q.gold)

\* the score Smartest gives a candidate of the call
ScoreOf(q) ==
    LET free == retain_free(pick.items)
    IN  SmartestScore(q, MaxGpm(free, Zero), MaxXpm(free, Zero))

\* the free candidates whose score is the maximum of the scores: none is
\* greater (a NaN score is neither greater than nor equal to any score)
TopScored ==
    {q \in FreeItems :
        /\ ScoreOf(q).k # "nan"
        /\ \A r \in FreeItems : ~FGt(ScoreOf(r), ScoreOf(q))}

\* C26: under Smartest, the call selects one candidate for one list, and where
\* candidates have a maximal score it is the first-listed of them.
C26_SmartestFirstOfTheBest ==
    pick.called /\ pick.strat = "Smartest" =>
        /\ pick.res = pick_mission(pick.items, "Smartest")
        /\ TopScored # {} =>
            /\ IsSome(pick.res)
            /\ pick.res[1] \in TopScored
            /\ \A q \in TopScored : pick.res[1].id <= q.id


\* the ceiling the config sets for a budget
CeilingOf(c, b) ==
    CASE b = "beer" -> c.max_mushrooms_beer
      [] b = "dungeon_skip" -> c.max_mushrooms_dungeon_skip
      [] b = "pet_skip" -> c.max_mushrooms_pet_skip

\* C27: with a ceiling of 0 the spend never happens: no tick sends FightTower
\* or FightDungeon with the use-mushroom flag while max_mushrooms_dungeon_skip
\* is 0, FightPetDungeon with use_mush while max_mushrooms_pet_skip is 0, or
\* BuyBeer while max_mushrooms_beer is 0.
C27_ZeroCeilingNeverSpends ==
    /\ \A i \in DOMAIN last.sent :
        LET cmd == last.sent[i]
        IN  /\ cfg[1].max_mushrooms_dungeon_skip = 0 =>
                /\ cmd.c = "FightTower" => ~cmd.use_mush
                /\ cmd.c = "FightDungeon" => ~cmd.use_mushroom
            /\ cfg[1].max_mushrooms_pet_skip = 0 =>
                (cmd.c = "FightPetDungeon" => ~cmd.use_mush)
            /\ cfg[1].max_mushrooms_beer = 0 => cmd.c # "BuyBeer"
    /\ \A b \in Budgets : CeilingOf(cfg[1], b) = 0 => spent[b] = 0

\* a tick on an account with mushrooms, every ceiling 0, the dungeon and the
\* exploration on their timers and a quest longer than the thirst: it sent a
\* command that spends nothing
C27_TickKeptTheMushrooms ==
    /\ last.act = "RunAutomationTick"
    /\ last.pre.tag = "Idle"
    /\ last.pre.gs.character.mushrooms > 0
    /\ last.pre.gs.tavern.current_action.kind = "Idle"
    /\ last.pre.gs.dungeons.next_free_fight = Some(Later)
    /\ IsSome(last.pre.gs.pets)
    /\ \A b \in Budgets : CeilingOf(cfg[1], b) = 0
    /\ last.sent # <<>>

\* C28: over any sequence of ticks and responses, the commands sent with a
\* mushroom flag for one budget are never more than the ceiling of the budget.
C28_SpendWithinCeiling ==
    \A b \in Budgets : spent[b] <= CeilingOf(cfg[1], b)


\* C29: a handler that gets the handle back with a response and finds the
\* status Busy ends with the handle restored (Idle), with the re-login on its
\* way (the handle travels in PlayerCommandFailed, or the status is
\* LoggingInAgain) or with FatalError: it never leaves the status Busy with
\* the handle dropped.
C29_ResponseNeverStrandsBusy ==
    last.act \in ResponseActs /\ last.pre.tag = "Busy" =>
        \/ status.tag \in {"Idle", "LoggingInAgain", "FatalError"}
        \/ status.tag = "Busy" /\ \E i \in DOMAIN holders : holders[i].kind = "CommandFailed"

\* C30: automation_queue is empty in every reachable state; a tick reaches
\* take_session only on an Idle status, so its take returns the session and
\* the tick sends its command instead of queueing it.
C30_QueueAlwaysEmpty ==
    /\ automation_queue = <<>>
    /\ last.act = "RunAutomationTick" /\ IsSome(last.take) =>
            /\ last.pre.tag = "Idle"
            /\ IsSome(last.take[1].res)
            /\ Len(last.sent) = 1

\* a tick took the session and sent a command that is not a plain Update
C30_TickSentInsteadOfQueueing ==
    /\ last.act = "RunAutomationTick"
    /\ IsSome(last.take)
    /\ last.sent # <<>>
    /\ last.sent[1] # Update
    /\ automation_queue = <<>>

\* the commands of each subsystem
TavernCmds == {"FinishQuest", "StartQuest", "BuyBeer"}
ExpeditionCmds ==
    {"ExpeditionStart", "ExpeditionContinue", "ExpeditionPickReward",
     "ExpeditionPickEncounter", "ExpeditionSkipWait"}
DungeonCmds == {"FightPortal", "FightTower", "FightDungeon"}
PetCmds == {"FightPetOpponent", "FightPetDungeon"}
GuildCmds == {"GuildJoinDefense", "GuildJoinAttack", "GuildPetBattle"}

\* C31: a tick sends no command of a subsystem whose flag is off: no
\* FinishQuest, StartQuest or BuyBeer without auto_tavern, no Expedition
\* command without auto_expeditions, no FightPortal, FightTower or
\* FightDungeon without auto_dungeons, no FightPetOpponent or FightPetDungeon
\* without auto_pets, no Guild command without auto_guild.
C31_DisabledSubsystemSilent ==
    last.act = "RunAutomationTick" /\ IsSome(cfg) =>
        \A i \in DOMAIN last.sent :
            LET c == last.sent[i].c
            IN  /\ ~cfg[1].auto_tavern => c \notin TavernCmds
                /\ ~cfg[1].auto_expeditions => c \notin ExpeditionCmds
                /\ ~cfg[1].auto_dungeons => c \notin DungeonCmds
                /\ ~cfg[1].auto_pets => c \notin PetCmds
                /\ ~cfg[1].auto_guild => c \notin GuildCmds

\* C32: a check whose idle test has passed computes its wait from the Idle
\* status it tested, whatever AutoPoll, the tick and the fights do in between:
\* it never finds the status no longer Idle at its second read, and so never
\* sleeps the 30-60 s backoff of a check that found no timer.
C32_CheckReadsOneStatus ==
    [][CheckReturns /\ ~checker.first_tick /\ checker.pc = "idle_seen"
        => /\ status.tag = "Idle"
           /\ last'.wait[1].sleep # Range(30000, 60000)]_vars

\* the snapshot with the same dungeons, pets and guild under a guard duty
\* that is still running
UnderRunningGuard(gs) ==
    [gs EXCEPT !.tavern.current_action = [kind |-> "CityGuard", busy_until |-> now + 1],
               !.tavern.expedition = None]

\* the tick found a running quest or expedition
BusyTavernTick ==
    TickOn("Idle") /\ last.pre.gs.tavern.current_action.kind \in {"Quest", "Expedition"}

\* C34: when a quest or an expedition is running and the tavern branch yields
\* nothing, the side-action fallback gives the command that the side actions
\* of the guard-duty branch give for the same dungeons, pets and guild (the
\* Update poll when they give none).
C34_FallbackEqualsBranchSideActions ==
    BusyTavernTick /\ TavernYieldsNothing =>
        LET guard == CityGuardBranch(UnderRunningGuard(last.pre.gs), cfg[1], now)
        IN  last.sent = <<IF CmdIsNone(guard) THEN Update ELSE guard>>

\* the tick reached the pets: they are enabled and owned, the tavern branch
\* found nothing to send and the dungeons gave no command
PetsEvaluated ==
    /\ TickOn("Idle")
    /\ cfg[1].auto_pets
    /\ IsSome(last.pre.gs.pets)
    /\ TavernYieldsNothing
    /\ CmdIsNone(DungeonsStep(NoCmd, last.pre.gs, cfg[1], now))

\* no pet PvP fight is due: the cooldown has not elapsed, or no habitat is
\* eligible (the opponent's habitat unfought, or an unfought habitat with a pet)
NoPvPDue(pets) ==
    \/ IsSome(pets.opponent.next_free_battle) /\ pets.opponent.next_free_battle[1] > now
    \/ /\ IsNone(pets.opponent.habitat)
             \/ pets.habitats[pets.opponent.habitat[1]].battled_opponent
       /\ \A h \in DOMAIN pets.habitats :
             pets.habitats[h].battled_opponent \/ pets.habitats[h].pets = <<>>

ExploreAllowed(pets, gs) ==
    \/ IsNone(pets.next_free_exploration)
    \/ pets.next_free_exploration[1] <= now
    \/ cfg[1].max_mushrooms_pet_skip > 0 /\ gs.character.mushrooms > 0

\* the habitats that are exploring and own a pet
ExploringHabs(pets) ==
    {h \in DOMAIN pets.habitats :
        IsSome(pets.habitats[h].exploration) /\ pets.habitats[h].pets # <<>>}

\* the level of the strongest pet of habitat h
StrongestLevel(pets, h) ==
    CHOOSE l \in {pets.habitats[h].pets[i].level : i \in DOMAIN pets.habitats[h].pets} :
        \A i \in DOMAIN pets.habitats[h].pets : pets.habitats[h].pets[i].level <= l

\* C35: whenever the tick evaluates the pets and no PvP fight is due, it
\* attempts the exploration: if the exploration cooldown has elapsed, or the
\* pet-skip budget is nonzero and mushrooms are owned, and a habitat is
\* exploring, the tick sends FightPetDungeon for an exploring habitat whose
\* strongest pet is of the highest level among the exploring habitats.
C35_ExplorationWhenNoPvP ==
    PetsEvaluated =>
        LET gs == last.pre.gs
            pets == gs.pets[1]
        IN  NoPvPDue(pets) /\ ExploreAllowed(pets, gs) /\ ExploringHabs(pets) # {}
                => /\ Len(last.sent) = 1
                   /\ last.sent[1].c = "FightPetDungeon"
                   /\ last.sent[1].habitat \in ExploringHabs(pets)
                   /\ \A h \in ExploringHabs(pets) :
                        StrongestLevel(pets, h) <= StrongestLevel(pets, last.sent[1].habitat)

\* the non-tower dungeons in the order the tick enumerates them: the light
\* dungeons, then the shadow dungeons
EnumeratedDungeons(d) ==
    [i \in 1..(Len(d.light) + Len(d.shadow)) |->
        IF i <= Len(d.light)
        THEN [dungeon |-> [kind |-> "Light", idx |-> i], progress |-> d.light[i]]
        ELSE [dungeon |-> [kind |-> "Shadow", idx |-> i - Len(d.light)],
              progress |-> d.shadow[i - Len(d.light)]]]

\* the tick reached the dungeon fight: the dungeons are enabled, the tavern
\* branch found nothing to send, the portal is not ready, and the timer has
\* elapsed (or is absent) or a mushroom skip is allowed
DungeonFightPermitted ==
    /\ TickOn("Idle")
    /\ cfg[1].auto_dungeons
    /\ TavernYieldsNothing
    /\ last.pre.gs.dungeons.portal \in {None, Some(FALSE)}
    /\ \/ IsNone(last.pre.gs.dungeons.next_free_fight)
       \/ last.pre.gs.dungeons.next_free_fight[1] <= now
       \/ cfg[1].max_mushrooms_dungeon_skip > 0 /\ last.pre.gs.character.mushrooms > 0

\* C36: when a dungeon fight is permitted and the portal is not ready, the
\* tick fights the tower at its finished level if the tower is open, and
\* otherwise the open dungeon with the fewest finished levels, the first of
\* them in the order light dungeons, shadow dungeons; the use-mushroom flag is
\* set exactly when the timer has not elapsed.
C36_TowerThenFewestFinished ==
    DungeonFightPermitted =>
        LET d == last.pre.gs.dungeons
            all == EnumeratedDungeons(d)
            open == {i \in DOMAIN all : IsSome(all[i].progress)}
            waiting == IsSome(d.next_free_fight) /\ d.next_free_fight[1] > now
        IN  IF IsSome(d.tower)
            THEN last.sent = <<[c |-> "FightTower", current_level |-> d.tower[1],
                                use_mush |-> waiting]>>
            ELSE open # {} =>
                    LET first == CHOOSE i \in open : \A j \in open :
                                    \/ all[i].progress[1] < all[j].progress[1]
                                    \/ all[i].progress[1] = all[j].progress[1] /\ i <= j
                    IN  last.sent = <<[c |-> "FightDungeon", dungeon |-> all[first].dungeon,
                                       use_mushroom |-> waiting]>>

\* a light and a shadow dungeon with the same progress, the timer running and
\* a skip allowed: the light dungeon is fought with a mushroom
C36_LightBeforeShadowOnSkip ==
    /\ DungeonFightPermitted
    /\ last.pre.gs.dungeons.light = <<None, Some(2)>>
    /\ last.pre.gs.dungeons.shadow = <<Some(2)>>
    /\ last.pre.gs.dungeons.next_free_fight = Some(Later)
    /\ last.sent = <<FightDungeon([kind |-> "Light", idx |-> 2], TRUE)>>

\* the tick found an expedition under way
ExpeditionTick ==
    /\ TickOn("Idle")
    /\ last.pre.gs.tavern.current_action.kind = "Expedition"
    /\ IsSome(last.pre.gs.tavern.expedition)

\* the three reward classes in the order of the configured priority
PriorityOrder(prio) ==
    CASE prio = "MushroomsGoldEggs" -> <<"mushrooms", "gold", "eggs">>
      [] prio = "GoldMushroomsEggs" -> <<"gold", "mushrooms", "eggs">>
      [] prio = "EggsMushroomsGold" -> <<"eggs", "mushrooms", "gold">>

RewardClass(r) ==
    IF r = "Mushrooms" THEN "mushrooms"
    ELSE IF r \in {"Gold", "Silver"} THEN "gold"
    ELSE IF r = "Egg" THEN "eggs" ELSE "other"

\* 3, 2, 1 for the classes of the priority in its order, 0 for anything else
RankUnder(prio, r) ==
    LET order == PriorityOrder(prio)
    IN  IF \E k \in 1..3 : order[k] = RewardClass(r)
        THEN 4 - (CHOOSE k \in 1..3 : order[k] = RewardClass(r))
        ELSE 0

\* C37: on a running expedition the tick decides by the stage: Boss gives
\* ExpeditionContinue; Rewards, when there are any, gives ExpeditionPickReward
\* at the first index of the highest rank under the configured priority;
\* Encounters, when there are any, gives ExpeditionPickEncounter at index 0;
\* Waiting gives ExpeditionSkipWait with a glass exactly when glass skipping
\* is enabled for expeditions, more than 60 s remain and a glass is owned;
\* every other case gives no tavern command: a side action or the Update poll.
C37_ExpeditionByStage ==
    ExpeditionTick =>
        LET e == last.pre.gs.tavern.expedition[1]
            prio == cfg[1].expedition_reward_priority
            none == Len(last.sent) = 1 /\ last.sent[1].c \in SideCmds \cup {"Update"}
        IN  CASE e.stage = "Boss" -> last.sent = <<[c |-> "ExpeditionContinue"]>>
              [] e.stage = "Rewards" ->
                    IF e.rewards = <<>> THEN none
                    ELSE \E i \in DOMAIN e.rewards :
                            /\ last.sent = <<[c |-> "ExpeditionPickReward", pos |-> i - 1]>>
                            /\ \A j \in DOMAIN e.rewards :
                                    RankUnder(prio, e.rewards[j]) <= RankUnder(prio, e.rewards[i])
                            /\ \A j \in 1..(i - 1) :
                                    RankUnder(prio, e.rewards[j]) < RankUnder(prio, e.rewards[i])
              [] e.stage = "Encounters" ->
                    IF e.encounters = 0 THEN none
                    ELSE last.sent = <<[c |-> "ExpeditionPickEncounter", pos |-> 0]>>
              [] e.stage = "Waiting" ->
                    IF /\ cfg[1].use_glasses_for_expeditions
                       /\ e.until - now > 60
                       /\ last.pre.gs.tavern.quicksand_glasses >= 1
                    THEN last.sent = <<[c |-> "ExpeditionSkipWait", typ |-> "Glass"]>>
                    ELSE none
              [] OTHER -> none

\* an egg, then two gold rewards under the priority mushrooms, gold, eggs:
\* the first of the two gold rewards is picked
C37_FirstOfTwoGoldPicked ==
    /\ ExpeditionTick
    /\ last.pre.gs.tavern.expedition[1].stage = "Rewards"
    /\ last.pre.gs.tavern.expedition[1].rewards = <<"Egg", "Gold", "Silver">>
    /\ cfg[1].expedition_reward_priority = "MushroomsGoldEggs"
    /\ last.sent = <<ExpeditionPickReward(1)>>

\* the tick reached the quests on offer: the tavern is idle and enabled and
\* the dungeons and the pets gave no command
QuestOfferTick ==
    /\ IdleTick
    /\ cfg[1].auto_tavern
    /\ last.pre.gs.tavern.available_tasks = "Quests"
    /\ NoDungeonOrPetCmd

\* the first of the quests at the places in S whose score no other one beats
FirstBestOf(qs, S) ==
    CHOOSE i \in S :
        \A j \in S :
            /\ ~ScoreGt(QuestScore(qs[j], cfg[1].mission_strategy),
                        QuestScore(qs[i], cfg[1].mission_strategy))
            /\ j < i => ScoreGt(QuestScore(qs[i], cfg[1].mission_strategy),
                                QuestScore(qs[j], cfg[1].mission_strategy))

\* the places of the quests that fit the remaining thirst
Fitting(gs) ==
    {i \in DOMAIN gs.tavern.quests :
        gs.tavern.quests[i].base_length <= gs.tavern.thirst_for_adventure_sec}

BeerAllowed(gs) ==
    /\ cfg[1].auto_buy_beer_mushrooms
    /\ cfg[1].max_mushrooms_beer > 0
    /\ gs.character.mushrooms > 0
    /\ gs.tavern.beer_drunk < 10 + (IF gs.character.thirsty_wanderer THEN 1 ELSE 0)

\* C38: every StartQuest a tick sends names a quest no longer than the
\* remaining thirst.  When the best-scoring quest is longer than the thirst,
\* the tick sends BuyBeer exactly when beer buying is enabled, the beer budget
\* is nonzero, mushrooms are owned and beer_drunk is below the daily cap;
\* otherwise it starts the best-scoring quest that fits; otherwise it sends
\* neither StartQuest nor BuyBeer.
C38_StartQuestWithinThirst ==
    /\ \A k \in DOMAIN last.sent :
            last.act = "RunAutomationTick" /\ last.sent[k].c = "StartQuest"
                => /\ last.sent[k].quest_pos + 1 \in DOMAIN last.pre.gs.tavern.quests
                   /\ last.pre.gs.tavern.quests[last.sent[k].quest_pos + 1].base_length
                            <= last.pre.gs.tavern.thirst_for_adventure_sec
    /\ QuestOfferTick =>
            LET gs == last.pre.gs
                qs == gs.tavern.quests
                best == FirstBestOf(qs, DOMAIN qs)
            IN  qs[best].base_length > gs.tavern.thirst_for_adventure_sec =>
                    IF BeerAllowed(gs) THEN last.sent = <<[c |-> "BuyBeer"]>>
                    ELSE IF Fitting(gs) # {}
                         THEN last.sent = <<[c |-> "StartQuest",
                                             quest_pos |-> FirstBestOf(qs, Fitting(gs)) - 1,
                                             overwrite_inv |-> TRUE]>>
                         ELSE /\ Len(last.sent) = 1
                              /\ last.sent[1].c \notin {"StartQuest", "BuyBeer"}

\* the quest with the most gold is longer than the thirst and no beer may be
\* bought: the tick starts the richer of the two quests that fit
C38_BestFittingStarted ==
    /\ QuestOfferTick
    /\ cfg[1].mission_strategy = "MostGold"
    /\ ~cfg[1].auto_buy_beer_mushrooms
    /\ last.pre.gs.tavern.thirst_for_adventure_sec = 300
    /\ Len(last.pre.gs.tavern.quests) = 3
    /\ last.pre.gs.tavern.quests[1].base_length = 1200
    /\ last.pre.gs.tavern.quests[2].base_silver = 5
    /\ last.pre.gs.tavern.quests[3].base_length = 300
    /\ last.pre.gs.tavern.quests[3].base_silver = 20
    /\ last.sent = <<StartQuest(2)>>

\* the quests on offer that fit the remaining thirst, as the candidates the
\* Mission Scorer ranks: the id is the quest's position, the duration is in
\* minutes and the rewards are the quest's silver and experience
RECURSIVE QuestCandidates(_, _, _)
QuestCandidates(qs, thirst, i) ==
    IF i > Len(qs) THEN <<>>
    ELSE (IF qs[i].base_length <= thirst
          THEN <<[id |-> i - 1, minutes |-> qs[i].base_length \div 60,
                  gold |-> U64(0, qs[i].base_silver),
                  xp |-> U64(0, qs[i].base_experience), mushrooms |-> 0]>>
          ELSE <<>>) \o QuestCandidates(qs, thirst, i + 1)

\* C39: the quest a tick starts is the one pick_mission selects among the
\* same candidates under the configured strategy, tie-breaks included.
C39_TickStartsPickMissionChoice ==
    \A k \in DOMAIN last.sent :
        last.act = "RunAutomationTick" /\ last.sent[k].c = "StartQuest" =>
            LET gs == last.pre.gs
                chosen == pick_mission(QuestCandidates(gs.tavern.quests,
                                            gs.tavern.thirst_for_adventure_sec, 1),
                                       cfg[1].mission_strategy)
            IN  IsSome(chosen) /\ chosen[1].id = last.sent[k].quest_pos

\* value * 1_000_000 / minutes without the cast, written <<k, r>> for
\* k * 2^63 + r and ordered by PairLess: exact for the minutes that divide
\* 1_000_000; the sentinel i64::MAX = 2^63 - 1 of minutes = 0 is <<1, -1>>
ExactRate(value, minutes) ==
    IF minutes = 0 THEN <<1, -1>>
    ELSE <<value.top * (1000000 \div minutes), (value.low * 1000000) \div minutes>>

\* the i64 that rate returns, in the same writing
RateReturned(value, minutes) ==
    LET r == rate(value, minutes) IN IF r[1] = 1 THEN <<1, -1>> ELSE r

RewardOf(q, strat) == IF strat = "BestGoldPerMinute" THEN q.gold ELSE q.xp

\* C40: rate returns value * 1,000,000 / minutes (i64::MAX for minutes = 0)
\* for every u64 value, and BestGoldPerMinute / BestXpPerMinute return a free
\* candidate whose reward per minute no free candidate exceeds.
C40_RateExactAndPickMaximal ==
    pick.called /\ ~pick.panicked
        /\ pick.strat \in {"BestGoldPerMinute", "BestXpPerMinute"} =>
        LET free == retain_free(pick.items)
        IN  /\ \A i \in DOMAIN free :
                    RateReturned(RewardOf(free[i], pick.strat), free[i].minutes)
                        = ExactRate(RewardOf(free[i], pick.strat), free[i].minutes)
            /\ free # <<>> =>
                    /\ IsSome(pick.res)
                    /\ \E i \in DOMAIN free : free[i] = pick.res[1]
                    /\ \A i \in DOMAIN free :
                            ~PairLess(ExactRate(RewardOf(pick.res[1], pick.strat),
                                                pick.res[1].minutes),
                                      ExactRate(RewardOf(free[i], pick.strat),
                                                free[i].minutes))

\* C33: while the account is not Idle, the ticks that are triggered (here by
\* the Run now button) do not become additional self-rescheduling retry
\* chains: at most one re-run of the tick handler is on its way at a time.
C33_NoAdditionalRetryChains ==
    status.tag # "Idle" => ticks.scheduled <= 1

====
